---- MODULE Spec2Model ----
(***************************************************************************)
(* Verification model of the RTK MQTT framework core:                      *)
(*   - topic builder      (framework/src/topic_builder.c)                  *)
(*   - plugin manager     (framework/src/plugin_manager.c)                 *)
(*   - backend manager    (framework/src/mqtt_client.c) together with the  *)
(*     PubSubClient adapter (framework/src/rtk_pubsub_adapter.c and        *)
(*     framework/src/rtk_pubsub_cpp_wrapper.cpp)                           *)
(*   - schema validator   (framework/src/schema_validator.c)               *)
(* C strings are sequences of one-character strings; a NULL string is the  *)
(* one-element sequence NullStr.                                           *)
(***************************************************************************)
EXTENDS Integers, Sequences, FiniteSets, TLC

VARIABLES
    \* ---- topic_builder.c ----
    current_config,      \* static rtk_topic_config_t current_config
    topic_is_configured, \* static int is_configured (topic_builder.c)
    built,               \* arguments and result of the last rtk_topic_build
    parsed,              \* arguments and result of the last rtk_topic_parse
    topic_last,          \* history: the last rtk_topic_set_config whose status the
                         \* caller kept or rtk_topic_build_subscribe_pattern call,
                         \* its result and the configuration stored before it
    \* ---- plugin_manager.c ----
    loaded_plugins,      \* static rtk_plugin_info_t loaded_plugins[MAX_PLUGINS]
    plugin_instances,    \* static rtk_plugin_instance_t plugin_instances[MAX_INSTANCES]
    plugin_count,        \* static int plugin_count
    instance_count,      \* static int instance_count
    is_initialized,      \* static int is_initialized (plugin_manager.c)
    dl_open,             \* dlopen reference count of every library
    crashed,             \* the process died on a null vtable dereference
    inst_origin,         \* history: plugin_name given to the CreateInstance of each slot
    pm_last,             \* history: the last plugin manager call, its result and
                         \* the plugin functions it called
    \* ---- mqtt_client.c, rtk_pubsub_adapter.c, rtk_pubsub_cpp_wrapper.cpp ----
    mqtt_manager,        \* static struct mqtt_manager
    pubsub_state,        \* static struct pubsub_state
    g_wrapper,           \* static PubSubWrapper g_wrapper
    link,                \* the PubSubClient holds an open session with the broker
    custom_connected,    \* connection flag of the caller's custom backend
    mq_last,             \* history: the last backend manager call, its result and
                         \* the backend operations it called, in order
    \* ---- schema_validator.c ----
    registered_schemas,  \* static rtk_schema_definition_t registered_schemas[MAX_SCHEMAS],
                         \* up to its last entry that is not all zero
    schema_count,        \* static int schema_count
    schema_is_initialized, \* static int is_initialized (schema_validator.c)
    sv_last,             \* history: the last schema validator call, its arguments
                         \* (json: the JSON text validated or the schema text
                         \* registered), its return value and the result structure
                         \* after it
    \* ---- message_codec.c ----
    counter,             \* static int counter of rtk_generate_request_id
    clock,               \* the wall clock, in milliseconds
    req_threads,         \* every thread's position in rtk_generate_request_id and
                         \* its locals
    issued,              \* history: the identifiers returned so far, in order of return
    codec_last,          \* history: the last encoder call, its message, its return
                         \* value and the members of the object it wrote
    \* ---- json_pool.c ----
    g_pool_initialized,  \* static int g_pool_initialized
    pool_mutex,          \* g_json_pool.pool_mutex: the thread that holds it
    buffers,             \* g_json_pool.buffers: in_use and the holder of the mutex
    current_usage,       \* g_json_pool.current_usage
    total_allocations,   \* g_json_pool.total_allocations
    pool_threads,        \* every thread's position in its pool call and the
                         \* buffer it passed
    held,                \* history: the callers that were handed each buffer and
                         \* have not seen it freed
    pool_last            \* history: the last pool call that returned or blocked

topic_vars == <<current_config, topic_is_configured, built, parsed, topic_last>>

plugin_vars == <<loaded_plugins, plugin_instances, plugin_count, instance_count,
                 is_initialized, dl_open, crashed, inst_origin, pm_last>>

mqtt_vars == <<mqtt_manager, pubsub_state, g_wrapper, link, custom_connected, mq_last>>

schema_vars == <<registered_schemas, schema_count, schema_is_initialized, sv_last>>

codec_vars == <<counter, clock, req_threads, issued, codec_last>>

pool_vars == <<g_pool_initialized, pool_mutex, buffers, current_usage, total_allocations,
               pool_threads, held, pool_last>>

vars == <<topic_vars, plugin_vars, mqtt_vars, schema_vars, codec_vars, pool_vars>>

\* ======================================================================
\* C string helpers
\* ======================================================================

NullStr == <<"<null>">>

Min(a, b) == IF a < b THEN a ELSE b

Take(s, n) == SubSeq(s, 1, Min(Len(s), n))

\* strncpy(dst, src, cap - 1) into a zero-filled char dst[cap]
StrNCpy(src, cap) == Take(src, cap - 1)

\* snprintf(buffer, size, ...): what is left in the buffer (size > 0)
SnPrintf(text, size) == Take(text, size - 1)

RECURSIVE Join(_)
Join(parts) ==
    IF Len(parts) = 0 THEN <<>>
    ELSE IF Len(parts) = 1 THEN parts[1]
    ELSE parts[1] \o <<"/">> \o Join(Tail(parts))

\* strtok(copy, "/") repeated: the non-empty runs between '/' characters
RECURSIVE StrTok(_, _, _)
StrTok(s, cur, acc) ==
    IF Len(s) = 0
    THEN IF Len(cur) = 0 THEN acc ELSE Append(acc, cur)
    ELSE IF Head(s) = "/"
         THEN StrTok(Tail(s), <<>>, IF Len(cur) = 0 THEN acc ELSE Append(acc, cur))
         ELSE StrTok(Tail(s), Append(cur, Head(s)), acc)

\* ======================================================================
\* topic_builder.c
\* ======================================================================

RTK_TOPIC_PREFIX == <<"r", "t", "k">>
RTK_TOPIC_VERSION == <<"v", "1">>

TopicFieldSize == 64
ExtendedSuffixSize == 256
TopicCopySize == 512
MaxComponents == 10

S_state == <<"s", "t", "a", "t", "e">>
S_attr == <<"a", "t", "t", "r">>
S_lwt == <<"l", "w", "t">>
S_telemetry == <<"t", "e", "l", "e", "m", "e", "t", "r", "y">>
S_evt == <<"e", "v", "t">>
S_cmd == <<"c", "m", "d">>
S_req == <<"r", "e", "q">>
S_ack == <<"a", "c", "k">>
S_res == <<"r", "e", "s">>

TopicTypes == {"RTK_TOPIC_STATE", "RTK_TOPIC_TELEMETRY", "RTK_TOPIC_EVENT",
               "RTK_TOPIC_ATTRIBUTE", "RTK_TOPIC_CMD_REQ", "RTK_TOPIC_CMD_ACK",
               "RTK_TOPIC_CMD_RES", "RTK_TOPIC_LWT", "RTK_TOPIC_GROUP_CMD"}

ZeroTopicConfig == [tenant |-> <<>>, site |-> <<>>, device_id |-> <<>>, group_id |-> <<>>]

validate_component(component) ==
    /\ component # NullStr
    /\ Len(component) # 0
    /\ \A i \in 1..Len(component) : component[i] \notin {"+", "#", "/"}

\* build_base_topic: [ret, buffer]
build_base_topic(buffer_size) ==
    IF topic_is_configured = 0 THEN [ret |-> -1, buffer |-> <<>>]
    ELSE LET text == Join(<<RTK_TOPIC_PREFIX, RTK_TOPIC_VERSION, current_config.tenant,
                            current_config.site, current_config.device_id>>)
         IN  IF Len(text) >= buffer_size
             THEN [ret |-> -1, buffer |-> SnPrintf(text, buffer_size)]
             ELSE [ret |-> Len(text), buffer |-> text]

\* the suffix selected by the switch of rtk_topic_build; NullStr when the
\* switch returns -1
topic_suffix(type, metric_or_event) ==
    CASE type = "RTK_TOPIC_STATE" -> <<"/">> \o S_state
      [] type = "RTK_TOPIC_TELEMETRY" ->
            IF metric_or_event = NullStr THEN NullStr
            ELSE SnPrintf(<<"/">> \o S_telemetry \o <<"/">> \o metric_or_event, ExtendedSuffixSize)
      [] type = "RTK_TOPIC_EVENT" ->
            IF metric_or_event = NullStr THEN NullStr
            ELSE SnPrintf(<<"/">> \o S_evt \o <<"/">> \o metric_or_event, ExtendedSuffixSize)
      [] type = "RTK_TOPIC_ATTRIBUTE" -> <<"/">> \o S_attr
      [] type = "RTK_TOPIC_CMD_REQ" -> <<"/">> \o S_cmd \o <<"/">> \o S_req
      [] type = "RTK_TOPIC_CMD_ACK" -> <<"/">> \o S_cmd \o <<"/">> \o S_ack
      [] type = "RTK_TOPIC_CMD_RES" -> <<"/">> \o S_cmd \o <<"/">> \o S_res
      [] type = "RTK_TOPIC_LWT" -> <<"/">> \o S_lwt
      [] OTHER -> NullStr

\* rtk_topic_build: [ret, buffer]
rtk_topic_build(type, metric_or_event, buffer_size) ==
    IF buffer_size = 0 THEN [ret |-> -1, buffer |-> <<>>]
    ELSE LET base == build_base_topic(buffer_size)
             suffix == topic_suffix(type, metric_or_event)
         IN  IF base.ret < 0 THEN [ret |-> -1, buffer |-> base.buffer]
             ELSE IF suffix = NullStr THEN [ret |-> -1, buffer |-> base.buffer]
             ELSE IF base.ret + Len(suffix) >= buffer_size
                  THEN [ret |-> -1, buffer |-> base.buffer]
                  ELSE [ret |-> base.ret + Len(suffix), buffer |-> base.buffer \o suffix]

\* the message-type dispatch of rtk_topic_parse on the components:
\* [ret, type, metric]; type and metric keep the caller's value when not written
parse_dispatch(components, type0, metric0, metric_buffer_size) ==
    LET n == Len(components)
        fail == [ret |-> -1, type |-> type0, metric |-> metric0]
        cap(m) == IF metric0 # NullStr /\ metric_buffer_size > 0
                  THEN StrNCpy(m, metric_buffer_size) ELSE metric0
    IN  IF n = 6 THEN
            IF components[6] = S_state THEN [ret |-> 0, type |-> "RTK_TOPIC_STATE", metric |-> metric0]
            ELSE IF components[6] = S_attr THEN [ret |-> 0, type |-> "RTK_TOPIC_ATTRIBUTE", metric |-> metric0]
            ELSE IF components[6] = S_lwt THEN [ret |-> 0, type |-> "RTK_TOPIC_LWT", metric |-> metric0]
            ELSE fail
        ELSE IF n = 7 THEN
            IF components[6] = S_telemetry
            THEN [ret |-> 0, type |-> "RTK_TOPIC_TELEMETRY", metric |-> cap(components[7])]
            ELSE IF components[6] = S_evt
            THEN [ret |-> 0, type |-> "RTK_TOPIC_EVENT", metric |-> cap(components[7])]
            ELSE fail
        ELSE IF n = 8 /\ components[6] = S_cmd THEN
            IF components[7] = S_req THEN [ret |-> 0, type |-> "RTK_TOPIC_CMD_REQ", metric |-> metric0]
            ELSE IF components[7] = S_ack THEN [ret |-> 0, type |-> "RTK_TOPIC_CMD_ACK", metric |-> metric0]
            ELSE IF components[7] = S_res THEN [ret |-> 0, type |-> "RTK_TOPIC_CMD_RES", metric |-> metric0]
            ELSE fail
        ELSE fail

\* rtk_topic_parse: [ret, config, type, metric] from the caller's out-parameters
rtk_topic_parse(topic, config0, type0, metric0, metric_buffer_size) ==
    LET topic_copy == StrNCpy(topic, TopicCopySize)
        components == Take(StrTok(topic_copy, <<>>, <<>>), MaxComponents)
    IN  IF Len(components) < 6 \/ components[1] # RTK_TOPIC_PREFIX
                               \/ components[2] # RTK_TOPIC_VERSION
        THEN [ret |-> -1, config |-> config0, type |-> type0, metric |-> metric0]
        ELSE LET config == [config0 EXCEPT !.tenant = StrNCpy(components[3], TopicFieldSize),
                                           !.site = StrNCpy(components[4], TopicFieldSize),
                                           !.device_id = StrNCpy(components[5], TopicFieldSize)]
                 d == parse_dispatch(components, type0, metric0, metric_buffer_size)
             IN  [ret |-> d.ret, config |-> config, type |-> d.type, metric |-> d.metric]

\* ---- inputs of the topic builder ----

MaxCompLen == 2
CompChars == {"a", "/", "+"}

RECURSIVE StringsUpTo(_, _)
StringsUpTo(chars, n) ==
    IF n = 0 THEN {<<>>}
    ELSE LET shorter == StringsUpTo(chars, n - 1)
         IN  shorter \cup {Append(s, c) : s \in shorter, c \in chars}

Components == StringsUpTo(CompChars, MaxCompLen)
Metrics == {NullStr, <<"t">>, <<"t", "x">>}
BufferSizes == {0, 20, 256}
MetricBufferSize == 128

TopicConfigs ==
    {[tenant |-> t, site |-> s, device_id |-> d, group_id |-> <<>>] :
        t \in Components, s \in {<<"a">>, <<"/">>}, d \in {<<"a">>, <<>>}}

NoBuilt == [type |-> "none", metric |-> NullStr, size |-> 0, ret |-> -1,
            buffer |-> <<>>, cfg |-> ZeroTopicConfig]
NoParsed == [topic |-> NullStr, ret |-> -1, config |-> ZeroTopicConfig,
             type |-> "none", metric |-> <<>>]

NoTopicCall == [op |-> "none", config |-> ZeroTopicConfig, pattern |-> "none", size |-> 0,
                ret |-> 0, buffer |-> <<>>, stored |-> ZeroTopicConfig, was_configured |-> 0]

TopicInit ==
    /\ current_config = ZeroTopicConfig
    /\ topic_is_configured = 0
    /\ built = NoBuilt
    /\ parsed = NoParsed
    /\ topic_last = NoTopicCall

\* rtk_topic_set_config
TopicSetConfig(config) ==
    /\ IF validate_component(config.tenant) /\ validate_component(config.site)
          /\ validate_component(config.device_id)
       THEN /\ current_config' = config
            /\ topic_is_configured' = 1
       ELSE UNCHANGED <<current_config, topic_is_configured>>
    /\ UNCHANGED <<built, parsed, topic_last>>

\* rtk_topic_set_config called by an application that keeps the returned status
TopicSetConfigChecked(config) ==
    LET ok == /\ validate_component(config.tenant) /\ validate_component(config.site)
              /\ validate_component(config.device_id)
    IN /\ IF ok
          THEN /\ current_config' = config
               /\ topic_is_configured' = 1
          ELSE UNCHANGED <<current_config, topic_is_configured>>
       /\ topic_last' = [NoTopicCall EXCEPT !.op = "set_config", !.config = config,
                                            !.ret = IF ok THEN 0 ELSE -1,
                                            !.stored = current_config,
                                            !.was_configured = topic_is_configured]
       /\ UNCHANGED <<built, parsed>>

\* rtk_topic_build called by the application
TopicBuild(type, metric, size) ==
    /\ LET r == rtk_topic_build(type, metric, size)
       IN  built' = [type |-> type, metric |-> metric, size |-> size, ret |-> r.ret,
                     buffer |-> r.buffer, cfg |-> current_config]
    /\ parsed' = NoParsed
    /\ UNCHANGED <<current_config, topic_is_configured, topic_last>>

\* rtk_topic_parse applied to the topic the last successful build returned,
\* with zeroed out-parameters
TopicParse ==
    /\ built.ret >= 0
    /\ LET r == rtk_topic_parse(built.buffer, ZeroTopicConfig, "none", <<>>, MetricBufferSize)
       IN  parsed' = [topic |-> built.buffer, ret |-> r.ret, config |-> r.config,
                      type |-> r.type, metric |-> r.metric]
    /\ UNCHANGED <<current_config, topic_is_configured, built, topic_last>>

\* rtk_topic_build_subscribe_pattern: [ret, buffer]; the buffer is empty when
\* nothing was written to it
SubscribePatterns == {"RTK_SUB_ALL_DEVICES", "RTK_SUB_ALL_EVENTS", "RTK_SUB_ALL_TELEMETRY",
                      "RTK_SUB_ALL_COMMANDS", "RTK_SUB_DEVICE_ALL", "RTK_SUB_GLOBAL_MONITOR"}

subscribe_pattern_text(pattern) ==
    LET site_base == <<RTK_TOPIC_PREFIX, RTK_TOPIC_VERSION, current_config.tenant,
                       current_config.site>>
    IN CASE pattern = "RTK_SUB_ALL_DEVICES" -> Join(site_base \o <<<<"+">>, S_state>>)
         [] pattern = "RTK_SUB_ALL_EVENTS" -> Join(site_base \o <<<<"+">>, S_evt, <<"#">>>>)
         [] pattern = "RTK_SUB_ALL_TELEMETRY" ->
               Join(site_base \o <<<<"+">>, S_telemetry, <<"#">>>>)
         [] pattern = "RTK_SUB_ALL_COMMANDS" -> Join(site_base \o <<<<"+">>, S_cmd, <<"#">>>>)
         [] pattern = "RTK_SUB_DEVICE_ALL" ->
               Join(site_base \o <<current_config.device_id, <<"#">>>>)
         [] pattern = "RTK_SUB_GLOBAL_MONITOR" ->
               Join(<<RTK_TOPIC_PREFIX, RTK_TOPIC_VERSION, <<"+">>, <<"+">>, <<"+">>, S_evt,
                      <<"#">>>>)
         [] OTHER -> NullStr

rtk_topic_build_subscribe_pattern(pattern, buffer_size) ==
    IF buffer_size = 0 THEN [ret |-> -1, buffer |-> <<>>]
    ELSE IF topic_is_configured = 0 THEN [ret |-> -1, buffer |-> <<>>]
    ELSE LET text == subscribe_pattern_text(pattern)
         IN IF text = NullStr THEN [ret |-> -1, buffer |-> <<>>]
            ELSE IF Len(text) >= buffer_size
            THEN [ret |-> -1, buffer |-> SnPrintf(text, buffer_size)]
            ELSE [ret |-> Len(text), buffer |-> text]

\* rtk_topic_build_subscribe_pattern called by the application
TopicBuildSubscribePattern(pattern, size) ==
    /\ LET r == rtk_topic_build_subscribe_pattern(pattern, size)
       IN topic_last' = [NoTopicCall EXCEPT !.op = "build_subscribe_pattern",
                                           !.pattern = pattern, !.size = size,
                                           !.ret = r.ret, !.buffer = r.buffer,
                                           !.stored = current_config,
                                           !.was_configured = topic_is_configured]
    /\ UNCHANGED <<current_config, topic_is_configured, built, parsed>>

\* ---- group command topics (topic_builder.c, rtk_topic_build_group_cmd) ----
S_group == <<"g", "r", "o", "u", "p">>

\* rtk_topic_build_group_cmd: [ret, buffer]
rtk_topic_build_group_cmd(group_id, buffer_size) ==
    IF group_id = NullStr \/ ~validate_component(group_id) THEN [ret |-> -1, buffer |-> <<>>]
    ELSE IF topic_is_configured = 0 THEN [ret |-> -1, buffer |-> <<>>]
    ELSE LET text == Join(<<RTK_TOPIC_PREFIX, RTK_TOPIC_VERSION, current_config.tenant,
                            current_config.site, S_group, group_id, S_cmd, S_req>>)
         IN  IF Len(text) >= buffer_size
             THEN [ret |-> -1, buffer |-> IF buffer_size = 0 THEN <<>>
                                          ELSE SnPrintf(text, buffer_size)]
             ELSE [ret |-> Len(text), buffer |-> text]

\* rtk_topic_build_group_cmd called by the application
TopicBuildGroupCmd(group_id, size) ==
    /\ LET r == rtk_topic_build_group_cmd(group_id, size)
       IN topic_last' = [NoTopicCall EXCEPT !.op = "build_group_cmd",
                                           !.config = [ZeroTopicConfig EXCEPT
                                                          !.group_id = group_id],
                                           !.size = size,
                                           !.ret = r.ret, !.buffer = r.buffer,
                                           !.stored = current_config,
                                           !.was_configured = topic_is_configured]
    /\ UNCHANGED <<current_config, topic_is_configured, built, parsed>>

\* the metric and event names and the group ids an application passes
PublishMetrics == {NullStr, <<>>, <<"t">>, <<"+">>, <<"t", "/", "x">>}
PublishGroupIds == {NullStr, <<>>, <<"g">>, <<"+">>, <<"g", "/">>}
PublishSizes == {20, 256}
PublishConfigs ==
    {[tenant |-> t, site |-> <<"a">>, device_id |-> <<"a">>, group_id |-> <<>>] :
        t \in {<<"a">>, <<"+">>}}

\* configurations with a group, and the subscribe patterns an application asks for
GroupedTopicConfigs ==
    {[tenant |-> t, site |-> <<"a">>, device_id |-> d, group_id |-> g] :
        t \in {<<"a">>, <<"b">>, <<"+">>}, d \in {<<"a">>, <<>>},
        g \in {<<>>, <<"g">>, <<"/">>, <<"g", "#">>}}
PatternArgs == SubscribePatterns \cup {"RTK_SUB_UNKNOWN"}


\* ======================================================================
\* plugin_manager.c
\* ======================================================================

MAX_PLUGINS == 16
MAX_INSTANCES == 32
PluginNameSize == 64
InstanceNameSize == 64

RTK_PLUGIN_SUCCESS == 0
RTK_PLUGIN_ERROR_INVALID_PARAM == -1
RTK_PLUGIN_ERROR_NOT_FOUND == -2
RTK_PLUGIN_ERROR_LOAD_FAILED == -3
RTK_PLUGIN_ERROR_ALREADY_LOADED == -4
RTK_PLUGIN_ERROR_INVALID_VTABLE == -6
RTK_PLUGIN_ERROR_MEMORY == -7

NULL == "NULL"
NoSlot == -1

\* the shared libraries on disk: what access/dlopen/dlsym and the three
\* registration functions of each yield
Libraries == {"a.so", "b.so", "bad.so", "none.so"}

\* a library whose rtk_plugin_get_name returns a name that does not fit
\* rtk_plugin_info_t.name
LongNameLibrary == "long.so"
LongPluginName == [i \in 1..PluginNameSize |-> "n"]
LoaderLibraries == Libraries \cup {LongNameLibrary}

LibExists(path) == path # "none.so"

LibName(path) ==
    CASE path = "a.so" -> <<"p">>
      [] path = "b.so" -> <<"q">>
      [] path = LongNameLibrary -> LongPluginName
      [] OTHER -> <<"r">>

\* which members of the library's vtable are non-NULL
LibVtable(path) ==
    CASE path \in {"a.so", LongNameLibrary} ->
                          [get_device_info |-> TRUE, initialize |-> TRUE,
                           start |-> TRUE, stop |-> TRUE]
      [] path = "b.so" -> [get_device_info |-> TRUE, initialize |-> TRUE,
                           start |-> FALSE, stop |-> FALSE]
      [] OTHER -> [get_device_info |-> TRUE, initialize |-> FALSE,
                   start |-> TRUE, stop |-> TRUE]

\* what reading vtable->start / vtable->stop through a null vtable pointer
\* can do: the read traps, or it yields a null function pointer
UbOutcomes == {"trap", "null"}

\* the values a plugin function may return
PluginRets == {RTK_PLUGIN_SUCCESS, RTK_PLUGIN_ERROR_INVALID_PARAM}

ZeroPlugin == [name |-> <<>>, vtable |-> NULL, handle |-> NULL]
ZeroInstance == [name |-> <<>>, plugin_info |-> NoSlot, is_running |-> 0]

NoCalls == <<>>
Call(fn, lib, ret) == [fn |-> fn, lib |-> lib, ret |-> ret]

Last(op, a, b, ret, calls) == [op |-> op, a |-> a, b |-> b, ret |-> ret, calls |-> calls]

\* index of the first element of 0..n-1 satisfying P, or -1
FirstIndex(n, P(_)) ==
    IF \E i \in 0..(n - 1) : P(i)
    THEN CHOOSE i \in 0..(n - 1) : P(i) /\ \A j \in 0..(i - 1) : ~P(j)
    ELSE -1

find_plugin_by_name(plugin_name) ==
    LET Match(i) == loaded_plugins[i].name = plugin_name
    IN  FirstIndex(plugin_count, Match)

find_instance_by_name(instance_name) ==
    LET Match(i) == plugin_instances[i].name = instance_name
    IN  FirstIndex(instance_count, Match)

find_free_instance_slot ==
    LET Free(i) == plugin_instances[i].plugin_info = NoSlot
    IN  FirstIndex(MAX_INSTANCES, Free)

rtk_plugin_validate_vtable(vt) == vt.get_device_info /\ vt.initialize

\* a recount that counts the occupied slots instead of scanning for the highest
recount_instances_live(insts) ==
    Cardinality({i \in 0..(MAX_INSTANCES - 1) : insts[i].plugin_info # NoSlot})

\* the recount at the end of rtk_plugin_destroy_instance
recount_instances(insts) ==
    IF \E i \in 0..(MAX_INSTANCES - 1) : insts[i].plugin_info # NoSlot
    THEN 1 + CHOOSE i \in 0..(MAX_INSTANCES - 1) :
                /\ insts[i].plugin_info # NoSlot
                /\ \A j \in (i + 1)..(MAX_INSTANCES - 1) : insts[j].plugin_info = NoSlot
    ELSE 0

LiveSlots == {i \in 0..(MAX_INSTANCES - 1) : plugin_instances[i].plugin_info # NoSlot}

PluginInit ==
    /\ loaded_plugins = [i \in 0..(MAX_PLUGINS - 1) |-> ZeroPlugin]
    /\ plugin_instances = [i \in 0..(MAX_INSTANCES - 1) |-> ZeroInstance]
    /\ plugin_count = 0
    /\ instance_count = 0
    /\ is_initialized = 1
    /\ dl_open = [l \in LoaderLibraries |-> 0]
    /\ crashed = FALSE
    /\ inst_origin = [i \in 0..(MAX_INSTANCES - 1) |-> NullStr]
    /\ pm_last = Last("init", NullStr, NullStr, RTK_PLUGIN_SUCCESS, NoCalls)

\* rtk_plugin_load
rtk_plugin_load(plugin_path) ==
    /\ ~crashed
    /\ LET name == LibName(plugin_path)
           fail(code) == /\ pm_last' = Last("load", plugin_path, NullStr, code, NoCalls)
                         /\ UNCHANGED <<loaded_plugins, plugin_count, dl_open>>
       IN  IF is_initialized = 0 THEN fail(RTK_PLUGIN_ERROR_INVALID_PARAM)
           ELSE IF plugin_count >= MAX_PLUGINS THEN fail(RTK_PLUGIN_ERROR_MEMORY)
           ELSE IF ~LibExists(plugin_path) THEN fail(RTK_PLUGIN_ERROR_LOAD_FAILED)
           \* dlopen ... every failure path below calls dlclose(handle)
           ELSE IF find_plugin_by_name(name) >= 0 THEN fail(RTK_PLUGIN_ERROR_ALREADY_LOADED)
           ELSE IF ~rtk_plugin_validate_vtable(LibVtable(plugin_path))
                THEN fail(RTK_PLUGIN_ERROR_INVALID_VTABLE)
           ELSE /\ loaded_plugins' = [loaded_plugins EXCEPT ![plugin_count] =
                        [name |-> StrNCpy(name, PluginNameSize),
                         vtable |-> plugin_path, handle |-> plugin_path]]
                /\ plugin_count' = plugin_count + 1
                /\ dl_open' = [dl_open EXCEPT ![plugin_path] = @ + 1]
                /\ pm_last' = Last("load", plugin_path, NullStr, RTK_PLUGIN_SUCCESS, NoCalls)
    /\ UNCHANGED <<plugin_instances, instance_count, is_initialized, crashed, inst_origin>>

\* the running-instance check of rtk_plugin_unload
unload_busy(index) ==
    \E i \in 0..(MAX_INSTANCES - 1) :
        plugin_instances[i].plugin_info = index /\ plugin_instances[i].is_running = 1

\* the table after removing entry index (later entries move forward)
compact_plugins(index) ==
    [i \in 0..(MAX_PLUGINS - 1) |->
        IF i < index THEN loaded_plugins[i]
        ELSE IF i < plugin_count - 1 THEN loaded_plugins[i + 1]
        ELSE IF i = plugin_count - 1 THEN ZeroPlugin
        ELSE loaded_plugins[i]]

\* rtk_plugin_unload
rtk_plugin_unload(plugin_name) ==
    /\ ~crashed
    /\ LET index == find_plugin_by_name(plugin_name)
           fail(code) == /\ pm_last' = Last("unload", plugin_name, NullStr, code, NoCalls)
                         /\ UNCHANGED <<loaded_plugins, plugin_count, dl_open>>
       IN  IF plugin_name = NullStr \/ is_initialized = 0
           THEN fail(RTK_PLUGIN_ERROR_INVALID_PARAM)
           ELSE IF index < 0 THEN fail(RTK_PLUGIN_ERROR_NOT_FOUND)
           ELSE IF unload_busy(index) THEN fail(RTK_PLUGIN_ERROR_NOT_FOUND)
           ELSE /\ dl_open' = IF loaded_plugins[index].handle # NULL
                              THEN [dl_open EXCEPT ![loaded_plugins[index].handle] = @ - 1]
                              ELSE dl_open
                /\ loaded_plugins' = compact_plugins(index)
                /\ plugin_count' = plugin_count - 1
                /\ pm_last' = Last("unload", plugin_name, NullStr, RTK_PLUGIN_SUCCESS, NoCalls)
    /\ UNCHANGED <<plugin_instances, instance_count, is_initialized, crashed, inst_origin>>

\* --- the mutation points of the instance operations ---

\* a rollback that leaves the slot as it was filled
clear_slot_kept(insts, slot) == insts

\* memset(instance, 0, sizeof(rtk_plugin_instance_t)) on slot
clear_slot(insts, slot) == [insts EXCEPT ![slot] = ZeroInstance]

\* a start that sets the flag whatever the plugin returned
running_after_start_always(old, ret) == 1

\* is_running after the plugin's start / stop returned ret
running_after_start(old, ret) == IF ret = RTK_PLUGIN_SUCCESS THEN 1 ELSE old
running_after_stop(old, ret) == IF ret = RTK_PLUGIN_SUCCESS THEN 0 ELSE old

\* rtk_plugin_start_instance on the slot, r being what the plugin's start
\* returns if it is called and ub the outcome of a null vtable dereference:
\* [ret, running, calls, crash]
start_instance(slot, r, ub) ==
    LET inst == plugin_instances[slot]
        keep(code) == [ret |-> code, running |-> inst.is_running, calls |-> NoCalls, crash |-> FALSE]
    IN  IF inst.plugin_info = NoSlot THEN keep(RTK_PLUGIN_ERROR_INVALID_PARAM)
        ELSE IF inst.is_running = 1 THEN keep(RTK_PLUGIN_SUCCESS)
        ELSE LET vtable == loaded_plugins[inst.plugin_info].vtable
             IN  IF vtable = NULL
                 THEN IF ub = "trap"
                      THEN [ret |-> RTK_PLUGIN_ERROR_INVALID_PARAM,
                            running |-> inst.is_running, calls |-> NoCalls, crash |-> TRUE]
                      ELSE [ret |-> RTK_PLUGIN_SUCCESS, running |-> 1, calls |-> NoCalls,
                            crash |-> FALSE]
                 ELSE IF LibVtable(vtable).start
                 THEN [ret |-> r, running |-> running_after_start(inst.is_running, r),
                       calls |-> <<Call("start", vtable, r)>>, crash |-> FALSE]
                 ELSE [ret |-> RTK_PLUGIN_SUCCESS, running |-> 1, calls |-> NoCalls, crash |-> FALSE]

\* rtk_plugin_stop_instance on the slot, r being what the plugin's stop
\* returns if it is called and ub the outcome of a null vtable dereference:
\* [ret, running, calls, crash]
stop_instance(slot, r, ub) ==
    LET inst == plugin_instances[slot]
        keep(code) == [ret |-> code, running |-> inst.is_running, calls |-> NoCalls, crash |-> FALSE]
    IN  IF inst.plugin_info = NoSlot THEN keep(RTK_PLUGIN_ERROR_INVALID_PARAM)
        ELSE IF inst.is_running = 0 THEN keep(RTK_PLUGIN_SUCCESS)
        ELSE LET vtable == loaded_plugins[inst.plugin_info].vtable
             IN  IF vtable = NULL
                 THEN IF ub = "trap"
                      THEN [ret |-> RTK_PLUGIN_ERROR_INVALID_PARAM,
                            running |-> inst.is_running, calls |-> NoCalls, crash |-> TRUE]
                      ELSE [ret |-> RTK_PLUGIN_SUCCESS, running |-> 0, calls |-> NoCalls,
                            crash |-> FALSE]
                 ELSE IF LibVtable(vtable).stop
                 THEN [ret |-> r, running |-> running_after_stop(inst.is_running, r),
                       calls |-> <<Call("stop", vtable, r)>>, crash |-> FALSE]
                 ELSE [ret |-> RTK_PLUGIN_SUCCESS, running |-> 0, calls |-> NoCalls, crash |-> FALSE]

\* the slot rtk_plugin_create_instance fills, NoSlot where it returns NULL
\* before filling one
create_slot(plugin_name, instance_name) ==
    IF plugin_name = NullStr \/ instance_name = NullStr \/ is_initialized = 0 THEN NoSlot
    ELSE IF find_plugin_by_name(plugin_name) < 0 THEN NoSlot
    ELSE IF find_instance_by_name(instance_name) >= 0 THEN NoSlot
    ELSE find_free_instance_slot

\* rtk_plugin_create_instance (config is a valid pointer); r is what the
\* plugin's initialize returns.  The returned pointer is the slot, or NoSlot.
rtk_plugin_create_instance(plugin_name, instance_name, r) ==
    /\ ~crashed
    /\ LET index == find_plugin_by_name(plugin_name)
           slot == create_slot(plugin_name, instance_name)
       IN  IF slot = NoSlot
           THEN /\ pm_last' = Last("create", plugin_name, instance_name, NoSlot, NoCalls)
                /\ UNCHANGED <<plugin_instances, instance_count, inst_origin>>
           ELSE LET vtable == loaded_plugins[index].vtable
                    filled == [plugin_instances EXCEPT ![slot] =
                                  [name |-> StrNCpy(instance_name, InstanceNameSize),
                                   plugin_info |-> index, is_running |-> 0]]
                    calls == IF LibVtable(vtable).initialize
                             THEN <<Call("initialize", vtable, r)>> ELSE NoCalls
                IN  IF LibVtable(vtable).initialize /\ r # RTK_PLUGIN_SUCCESS
                    THEN /\ plugin_instances' = clear_slot(filled, slot)
                         /\ pm_last' = Last("create", plugin_name, instance_name, NoSlot, calls)
                         /\ UNCHANGED <<instance_count, inst_origin>>
                    ELSE /\ plugin_instances' = filled
                         /\ instance_count' = IF slot >= instance_count THEN slot + 1
                                              ELSE instance_count
                         /\ inst_origin' = [inst_origin EXCEPT ![slot] = plugin_name]
                         /\ pm_last' = Last("create", plugin_name, instance_name, slot, calls)
    /\ UNCHANGED <<loaded_plugins, plugin_count, is_initialized, dl_open, crashed>>

\* rtk_plugin_destroy_instance(&plugin_instances[slot]); r is what the
\* plugin's stop returns if it is called
rtk_plugin_destroy_instance(slot, r, ub) ==
    /\ ~crashed
    /\ IF plugin_instances[slot].plugin_info = NoSlot
       THEN /\ pm_last' = Last("destroy", slot, NullStr, RTK_PLUGIN_ERROR_INVALID_PARAM, NoCalls)
            /\ UNCHANGED <<plugin_instances, instance_count, crashed, inst_origin>>
       ELSE LET st == IF plugin_instances[slot].is_running = 1
                      THEN stop_instance(slot, r, ub)
                      ELSE [ret |-> RTK_PLUGIN_SUCCESS, running |-> 0, calls |-> NoCalls,
                            crash |-> FALSE]
            IN  IF st.crash
                THEN /\ crashed' = TRUE
                     /\ pm_last' = Last("destroy", slot, NullStr, st.ret, st.calls)
                     /\ UNCHANGED <<plugin_instances, instance_count, inst_origin>>
                ELSE LET stopped == [plugin_instances EXCEPT ![slot].is_running = st.running]
                         cleared == clear_slot(stopped, slot)
                     IN  /\ plugin_instances' = cleared
                         /\ instance_count' = recount_instances(cleared)
                         /\ inst_origin' = [inst_origin EXCEPT ![slot] = NullStr]
                         \* b records is_running at the moment the slot was cleared
                         /\ pm_last' = Last("destroy", slot, st.running, RTK_PLUGIN_SUCCESS, st.calls)
                         /\ UNCHANGED crashed
    /\ UNCHANGED <<loaded_plugins, plugin_count, is_initialized, dl_open>>

\* rtk_plugin_start_instance(&plugin_instances[slot])
rtk_plugin_start_instance(slot, r, ub) ==
    /\ ~crashed
    /\ LET st == start_instance(slot, r, ub)
       IN  /\ plugin_instances' = [plugin_instances EXCEPT ![slot].is_running = st.running]
           /\ crashed' = st.crash
           /\ pm_last' = Last("start", slot, NullStr, st.ret, st.calls)
    /\ UNCHANGED <<loaded_plugins, plugin_count, instance_count, is_initialized, dl_open,
                   inst_origin>>

\* rtk_plugin_stop_instance(&plugin_instances[slot])
rtk_plugin_stop_instance(slot, r, ub) ==
    /\ ~crashed
    /\ LET st == stop_instance(slot, r, ub)
       IN  /\ plugin_instances' = [plugin_instances EXCEPT ![slot].is_running = st.running]
           /\ crashed' = st.crash
           /\ pm_last' = Last("stop", slot, NullStr, st.ret, st.calls)
    /\ UNCHANGED <<loaded_plugins, plugin_count, instance_count, is_initialized, dl_open,
                   inst_origin>>

\* ---- inputs of the plugin manager ----

MaxLive == 2

Long63 == [i \in 1..(InstanceNameSize - 1) |-> "x"]
LongA == Long63 \o <<"a">>
LongB == Long63 \o <<"b">>

\* a name is unknown to the manager until its library is loaded
PluginNameArgs == {<<"p">>, <<"q">>}
InstanceNameArgs == {<<"i">>, LongA, LongB}
\* the instance pointers a caller passes: those of the live instances, and
\* one to a slot that holds none (all such slots are zeroed alike)
SlotArgs == LiveSlots \cup {find_free_instance_slot}

\* the pairs of PluginRets x UbOutcomes on which the result f of a call on a
\* slot depends: a call reads the plugin's return value, or the outcome of a
\* null dereference, or neither, so one pair stands for all that give the
\* same result
SameOutcome == <<RTK_PLUGIN_SUCCESS, "null">>
OtherOutcome == <<RTK_PLUGIN_ERROR_INVALID_PARAM, "trap">>
Outcomes(f(_, _)) ==
    {o \in {SameOutcome, OtherOutcome} :
        o = SameOutcome \/ f(o[1], o[2]) # f(SameOutcome[1], SameOutcome[2])}

\* the return values of initialize on which a create depends: initialize is
\* called only on a slot
InitializeRets(plugin_name, instance_name) ==
    IF create_slot(plugin_name, instance_name) = NoSlot THEN {RTK_PLUGIN_SUCCESS}
    ELSE PluginRets


\* ======================================================================
\* mqtt_client.c, rtk_pubsub_adapter.c, rtk_pubsub_cpp_wrapper.cpp
\* ======================================================================

MAX_BACKENDS == 8

\* rtk_mqtt_error_t
RTK_MQTT_SUCCESS == 0
RTK_MQTT_ERROR_INVALID_PARAM == -1
RTK_MQTT_ERROR_NOT_CONNECTED == -2
RTK_MQTT_ERROR_CONNECTION_FAILED == -3
RTK_MQTT_ERROR_TIMEOUT == -4
RTK_MQTT_ERROR_MEMORY == -5
RTK_MQTT_ERROR_BACKEND_NOT_FOUND == -6
RTK_MQTT_ERROR_ALREADY_CONNECTED == -7
RTK_MQTT_ERROR_PUBLISH_FAILED == -8
RTK_MQTT_ERROR_SUBSCRIBE_FAILED == -9
RTK_MQTT_ERROR_UNKNOWN == -99

rtk_mqtt_error_t ==
    {RTK_MQTT_SUCCESS, RTK_MQTT_ERROR_INVALID_PARAM, RTK_MQTT_ERROR_NOT_CONNECTED,
     RTK_MQTT_ERROR_CONNECTION_FAILED, RTK_MQTT_ERROR_TIMEOUT, RTK_MQTT_ERROR_MEMORY,
     RTK_MQTT_ERROR_BACKEND_NOT_FOUND, RTK_MQTT_ERROR_ALREADY_CONNECTED,
     RTK_MQTT_ERROR_PUBLISH_FAILED, RTK_MQTT_ERROR_SUBSCRIBE_FAILED,
     RTK_MQTT_ERROR_UNKNOWN}

\* rtk_pubsub_error_t of the adapter (rtk_pubsub_adapter.h)
RTK_PUBSUB_SUCCESS == 0
RTK_PUBSUB_ERROR_INVALID_PARAM == -1
RTK_PUBSUB_ERROR_NOT_CONNECTED == -2
RTK_PUBSUB_ERROR_CONNECTION_FAILED == -3
RTK_PUBSUB_ERROR_MEMORY == -4
RTK_PUBSUB_ERROR_TIMEOUT == -5
RTK_PUBSUB_ERROR_NETWORK == -6
RTK_PUBSUB_ERROR_PROTOCOL == -7
RTK_PUBSUB_ERROR_UNKNOWN == -99

\* the wrapper's own codes (#define in rtk_pubsub_cpp_wrapper.cpp; the names
\* clash with the adapter's, hence the CPP_ prefix)
CPP_SUCCESS == 0
CPP_ERROR_NOT_INITIALIZED == -2
CPP_ERROR_NOT_CONNECTED == -3
CPP_ERROR_CONNECTION_FAILED == -4
CPP_ERROR_MEMORY == -7
CPP_ERROR_PUBLISH_FAILED == -10
CPP_ERROR_SUBSCRIBE_FAILED == -11
CPP_ERROR_UNSUBSCRIBE_FAILED == -12
CPP_ERROR_LOOP_FAILED == -13
CPP_ERROR_UNKNOWN == -99

convert_cpp_error(cpp_error_code) ==
    CASE cpp_error_code = 0 -> RTK_PUBSUB_SUCCESS
      [] cpp_error_code = -1 -> RTK_PUBSUB_ERROR_INVALID_PARAM
      [] cpp_error_code \in {-2, -3} -> RTK_PUBSUB_ERROR_NOT_CONNECTED
      [] cpp_error_code = -4 -> RTK_PUBSUB_ERROR_CONNECTION_FAILED
      [] cpp_error_code = -5 -> RTK_PUBSUB_ERROR_NETWORK
      [] cpp_error_code = -6 -> RTK_PUBSUB_ERROR_TIMEOUT
      [] cpp_error_code = -7 -> RTK_PUBSUB_ERROR_MEMORY
      [] cpp_error_code = -8 -> RTK_PUBSUB_ERROR_PROTOCOL
      [] OTHER -> RTK_PUBSUB_ERROR_UNKNOWN

\* ---- the backends a caller can hand to the manager ----

\* "pubsub" is pubsub_backend_ops; "custom" is a caller's backend providing
\* exactly the six operations rtk_mqtt_set_backend requires; "partial" is a
\* caller's table without is_connected
BackendNames == {"pubsub", "custom", "partial"}

OpNames == {"init", "cleanup", "connect", "disconnect", "is_connected", "reconnect",
            "publish", "subscribe", "unsubscribe", "loop", "yield", "set_callback"}

RequiredOps == {"connect", "disconnect", "publish", "subscribe", "unsubscribe",
                "is_connected"}

\* the non-NULL members of each operations table
BackendOps(b) ==
    CASE b = "pubsub" -> OpNames
      [] b = "custom" -> RequiredOps
      [] OTHER -> RequiredOps \ {"is_connected"}

\* ---- configurations ----

NullConfig == [broker_host |-> "<null>", broker_port |-> 0, client_id |-> "<null>"]
ZeroConfig == [broker_host |-> "", broker_port |-> 0, client_id |-> ""]

ZeroManager ==
    [backends |-> <<>>, current_backend |-> NULL, current_config |-> ZeroConfig,
     is_initialized |-> 0, is_configured |-> 0,
     last_error |-> "", last_error_code |-> RTK_MQTT_SUCCESS,
     global_message_callback |-> NULL, global_connection_callback |-> NULL]

ZeroPubsub ==
    [config |-> ZeroConfig, is_initialized |-> 0, is_connected |-> 0,
     message_callback |-> NULL]

ZeroWrapper ==
    [initialized |-> FALSE, connected |-> FALSE, broker_host |-> "", broker_port |-> 0,
     client_id |-> "", message_callback |-> NULL]

\* static initialiser of g_wrapper
InitWrapper == [ZeroWrapper EXCEPT !.broker_port = 1883]

\* ---- the state the functions below pass along ----

\* w.m mqtt_manager, w.p pubsub_state, w.g g_wrapper, w.link whether the
\* PubSubClient holds an open MQTT session, w.cust the custom backend's
\* connection, w.trace the backend operations the manager has called,
\* w.inbox the PUBLISH packets waiting to be read from the session, w.invoked
\* the application callbacks that have been invoked
World ==
    [m |-> mqtt_manager, p |-> pubsub_state, g |-> g_wrapper, link |-> link,
     cust |-> custom_connected, trace |-> <<>>, inbox |-> 0, invoked |-> <<>>]

Ret(w, ret) == [w |-> w, ret |-> ret]

\* the manager calls current_backend->fn
Called(w, fn) ==
    [w EXCEPT !.trace = Append(@, [backend |-> w.m.current_backend, fn |-> fn])]

set_last_error(w, code, message) ==
    [w EXCEPT !.m.last_error_code = code, !.m.last_error = message]

\* ---- rtk_pubsub_cpp_wrapper.cpp ----

\* uint16_t broker_port parameter
ToUint16(n) == n % 65536

rtk_pubsub_cpp_init(w, broker_host, broker_port, client_id, alloc_ok) ==
    IF w.g.initialized THEN Ret(w, CPP_SUCCESS)
    ELSE LET copied == [w EXCEPT !.g.broker_host = broker_host,
                                 !.g.broker_port = ToUint16(broker_port),
                                 !.g.client_id = client_id]
         IN  IF alloc_ok
             THEN Ret([copied EXCEPT !.g.initialized = TRUE, !.link = FALSE], CPP_SUCCESS)
             ELSE Ret(copied, CPP_ERROR_UNKNOWN)

rtk_pubsub_cpp_disconnect(w) ==
    IF ~w.g.initialized THEN Ret(w, CPP_ERROR_NOT_INITIALIZED)
    ELSE IF ~w.g.connected THEN Ret(w, CPP_SUCCESS)
    ELSE Ret([w EXCEPT !.link = FALSE, !.g.connected = FALSE], CPP_SUCCESS)

rtk_pubsub_cpp_cleanup(w) ==
    IF ~w.g.initialized THEN w
    ELSE LET d == IF w.g.connected THEN rtk_pubsub_cpp_disconnect(w).w ELSE w
         IN  [d EXCEPT !.link = FALSE, !.g = ZeroWrapper]

rtk_pubsub_cpp_connect(w, connect_ok) ==
    IF ~w.g.initialized THEN Ret(w, CPP_ERROR_NOT_INITIALIZED)
    ELSE IF w.g.connected THEN Ret(w, CPP_SUCCESS)
    ELSE IF connect_ok
    THEN Ret([w EXCEPT !.link = TRUE, !.g.connected = TRUE], CPP_SUCCESS)
    ELSE Ret([w EXCEPT !.link = FALSE], CPP_ERROR_CONNECTION_FAILED)

rtk_pubsub_cpp_is_connected(w) ==
    IF ~w.g.initialized THEN Ret(w, 0)
    ELSE Ret([w EXCEPT !.g.connected = w.link], IF w.link THEN 1 ELSE 0)

\* publish, subscribe and unsubscribe; failed is the code of a refused request
rtk_pubsub_cpp_request(w, op_ok, failed) ==
    IF ~w.g.initialized THEN Ret(w, CPP_ERROR_NOT_INITIALIZED)
    ELSE IF ~w.g.connected THEN Ret(w, CPP_ERROR_NOT_CONNECTED)
    ELSE IF w.link /\ op_ok THEN Ret(w, CPP_SUCCESS)
    ELSE Ret(w, failed)

\* a loop that reopens a lost session by itself
rtk_pubsub_cpp_loop_reconnecting(w) ==
    IF ~w.g.initialized THEN Ret(w, CPP_ERROR_NOT_INITIALIZED)
    ELSE Ret([w EXCEPT !.link = TRUE, !.g.connected = TRUE], CPP_SUCCESS)

rtk_pubsub_cpp_set_callback(w, callback) == [w EXCEPT !.g.message_callback = callback]

\* message_callback_bridge of the adapter: one received message is handed to
\* pubsub_state.message_callback
message_callback_bridge(w) ==
    IF w.p.message_callback # NULL
    THEN [w EXCEPT !.invoked = Append(@, w.p.message_callback)]
    ELSE w

\* internal_mqtt_callback, which PubSubClient::loop calls for a PUBLISH packet
internal_mqtt_callback(w) ==
    IF w.g.message_callback # NULL THEN message_callback_bridge(w) ELSE w

\* PubSubClient::loop on an open session reads the waiting packets
RECURSIVE read_inbox(_)
read_inbox(w) ==
    IF w.inbox = 0 THEN w
    ELSE read_inbox(internal_mqtt_callback([w EXCEPT !.inbox = @ - 1]))

rtk_pubsub_cpp_loop(w) ==
    IF ~w.g.initialized THEN Ret(w, CPP_ERROR_NOT_INITIALIZED)
    ELSE IF ~w.g.connected THEN Ret(w, CPP_ERROR_NOT_CONNECTED)
    ELSE IF w.link THEN Ret(read_inbox(w), CPP_SUCCESS)
    ELSE Ret(w, CPP_ERROR_LOOP_FAILED)

\* ---- rtk_pubsub_adapter.c ----

rtk_pubsub_init(w, config, alloc_ok) ==
    IF config = NullConfig THEN Ret(w, RTK_PUBSUB_ERROR_INVALID_PARAM)
    ELSE IF w.p.is_initialized = 1 THEN Ret(w, RTK_PUBSUB_SUCCESS)
    ELSE LET saved == [w EXCEPT !.p.config = config]
             r == rtk_pubsub_cpp_init(saved, config.broker_host, config.broker_port,
                                      config.client_id, alloc_ok)
         IN  IF r.ret # 0 THEN Ret(r.w, convert_cpp_error(r.ret))
             ELSE Ret([rtk_pubsub_cpp_set_callback(r.w, "message_callback_bridge")
                          EXCEPT !.p.is_initialized = 1, !.p.is_connected = 0],
                      RTK_PUBSUB_SUCCESS)

rtk_pubsub_disconnect(w) ==
    IF w.p.is_initialized = 0 THEN Ret(w, RTK_PUBSUB_ERROR_NOT_CONNECTED)
    ELSE IF w.p.is_connected = 0 THEN Ret(w, RTK_PUBSUB_SUCCESS)
    ELSE Ret([rtk_pubsub_cpp_disconnect(w).w EXCEPT !.p.is_connected = 0],
             RTK_PUBSUB_SUCCESS)

rtk_pubsub_cleanup(w) ==
    IF w.p.is_initialized = 0 THEN w
    ELSE LET d == IF w.p.is_connected # 0 THEN rtk_pubsub_disconnect(w).w ELSE w
         IN  [rtk_pubsub_cpp_cleanup(d) EXCEPT !.p = ZeroPubsub]

rtk_pubsub_connect(w, connect_ok) ==
    IF w.p.is_initialized = 0 THEN Ret(w, RTK_PUBSUB_ERROR_NOT_CONNECTED)
    ELSE IF w.p.is_connected # 0 THEN Ret(w, RTK_PUBSUB_SUCCESS)
    ELSE LET r == rtk_pubsub_cpp_connect(w, connect_ok)
         IN  IF r.ret # 0 THEN Ret(r.w, convert_cpp_error(r.ret))
             ELSE Ret([r.w EXCEPT !.p.is_connected = 1], RTK_PUBSUB_SUCCESS)

rtk_pubsub_is_connected(w) ==
    IF w.p.is_initialized = 0 THEN Ret(w, 0)
    ELSE LET r == rtk_pubsub_cpp_is_connected(w)
         IN  Ret([r.w EXCEPT !.p.is_connected = r.ret], r.ret)

rtk_pubsub_reconnect(w, connect_ok) ==
    rtk_pubsub_connect(IF w.p.is_connected # 0 THEN rtk_pubsub_disconnect(w).w ELSE w,
                       connect_ok)

\* rtk_pubsub_publish, rtk_pubsub_subscribe and rtk_pubsub_unsubscribe with a
\* non-NULL message or topic
rtk_pubsub_request(w, op_ok, failed) ==
    IF w.p.is_connected = 0 THEN Ret(w, RTK_PUBSUB_ERROR_NOT_CONNECTED)
    ELSE LET r == rtk_pubsub_cpp_request(w, op_ok, failed)
         IN  Ret(r.w, convert_cpp_error(r.ret))

rtk_pubsub_loop(w) ==
    IF w.p.is_connected = 0 THEN Ret(w, RTK_PUBSUB_ERROR_NOT_CONNECTED)
    ELSE LET r == rtk_pubsub_cpp_loop(w)
             rtk_error == convert_cpp_error(r.ret)
         IN  IF r.ret # 0 /\ rtk_error = RTK_PUBSUB_ERROR_NOT_CONNECTED
             THEN Ret([r.w EXCEPT !.p.is_connected = 0], rtk_error)
             ELSE Ret(r.w, rtk_error)

rtk_pubsub_yield(w) == rtk_pubsub_loop(w)

rtk_pubsub_set_callback(w, callback) ==
    Ret([w EXCEPT !.p.message_callback = callback], RTK_PUBSUB_SUCCESS)

\* ---- the custom backend: a connection flag behind the six operations ----

custom_connect(w, connect_ok) ==
    IF connect_ok THEN Ret([w EXCEPT !.cust = 1], RTK_MQTT_SUCCESS)
    ELSE Ret(w, RTK_MQTT_ERROR_CONNECTION_FAILED)

custom_disconnect(w, disc_ok) ==
    IF disc_ok THEN Ret([w EXCEPT !.cust = 0], RTK_MQTT_SUCCESS)
    ELSE Ret(w, RTK_MQTT_ERROR_UNKNOWN)

custom_is_connected(w) == Ret(w, w.cust)

custom_request(w, op_ok, failed) ==
    IF w.cust = 1 /\ op_ok THEN Ret(w, RTK_MQTT_SUCCESS) ELSE Ret(w, failed)

\* ---- mqtt_manager.current_backend->op(...) ----

IsPubsub(w) == w.m.current_backend = "pubsub"

Provides(w, fn) == fn \in BackendOps(w.m.current_backend)

backend_init(w, config, alloc_ok) ==
    rtk_pubsub_init(Called(w, "init"), config, alloc_ok)

backend_cleanup(w) == rtk_pubsub_cleanup(Called(w, "cleanup"))

backend_connect(w, connect_ok) ==
    IF IsPubsub(w) THEN rtk_pubsub_connect(Called(w, "connect"), connect_ok)
    ELSE custom_connect(Called(w, "connect"), connect_ok)

backend_disconnect(w, disc_ok) ==
    IF IsPubsub(w) THEN rtk_pubsub_disconnect(Called(w, "disconnect"))
    ELSE custom_disconnect(Called(w, "disconnect"), disc_ok)

backend_is_connected(w) ==
    IF IsPubsub(w) THEN rtk_pubsub_is_connected(Called(w, "is_connected"))
    ELSE custom_is_connected(Called(w, "is_connected"))

backend_reconnect(w, connect_ok) ==
    rtk_pubsub_reconnect(Called(w, "reconnect"), connect_ok)

\* fn is publish, subscribe or unsubscribe
backend_request(w, fn, op_ok) ==
    IF IsPubsub(w)
    THEN rtk_pubsub_request(Called(w, fn), op_ok,
            CASE fn = "publish" -> CPP_ERROR_PUBLISH_FAILED
              [] fn = "subscribe" -> CPP_ERROR_SUBSCRIBE_FAILED
              [] OTHER -> CPP_ERROR_UNSUBSCRIBE_FAILED)
    ELSE custom_request(Called(w, fn), op_ok,
            IF fn = "publish" THEN RTK_MQTT_ERROR_PUBLISH_FAILED
            ELSE RTK_MQTT_ERROR_SUBSCRIBE_FAILED)

backend_loop(w) == rtk_pubsub_loop(Called(w, "loop"))

backend_yield(w) == rtk_pubsub_yield(Called(w, "yield"))

backend_set_callback(w, callback) ==
    rtk_pubsub_set_callback(Called(w, "set_callback"), callback)

\* ---- mqtt_client.c ----

\* !mqtt_manager.is_initialized || !mqtt_manager.current_backend
no_backend(w) == w.m.is_initialized = 0 \/ w.m.current_backend = NULL

NoBackend(w) ==
    Ret(set_last_error(w, RTK_MQTT_ERROR_BACKEND_NOT_FOUND, "No backend available"),
        RTK_MQTT_ERROR_BACKEND_NOT_FOUND)

find_backend_by_name(w, name) ==
    IF name = NULL THEN -1
    ELSE LET Match(i) == w.m.backends[i + 1] = name
         IN  FirstIndex(Len(w.m.backends), Match)

rtk_mqtt_register_backend(w, name, ops) ==
    LET fail(code, msg) == Ret(set_last_error(w, code, msg), code)
    IN  IF w.m.is_initialized = 0
        THEN fail(RTK_MQTT_ERROR_INVALID_PARAM, "Manager not initialized")
        ELSE IF name = NULL \/ ops = NULL
        THEN fail(RTK_MQTT_ERROR_INVALID_PARAM, "Invalid parameters")
        ELSE IF Len(w.m.backends) >= MAX_BACKENDS
        THEN fail(RTK_MQTT_ERROR_MEMORY, "Too many backends registered")
        ELSE IF find_backend_by_name(w, name) >= 0
        THEN fail(RTK_MQTT_ERROR_INVALID_PARAM, "Backend already registered")
        ELSE Ret(set_last_error([w EXCEPT !.m.backends = Append(@, ops)],
                                RTK_MQTT_SUCCESS, "Backend registered successfully"),
                 RTK_MQTT_SUCCESS)

rtk_mqtt_init(w) ==
    IF w.m.is_initialized # 0
    THEN Ret(set_last_error(w, RTK_MQTT_SUCCESS, "Already initialized"), RTK_MQTT_SUCCESS)
    ELSE LET fresh == [w EXCEPT !.m = [ZeroManager EXCEPT !.is_initialized = 1]]
             reg == rtk_mqtt_register_backend(fresh, "pubsub", "pubsub").w
             i == find_backend_by_name(reg, "pubsub")
             pubsub_backend == IF i >= 0 THEN reg.m.backends[i + 1]
                               ELSE IF Len(reg.m.backends) > 0 THEN reg.m.backends[1]
                               ELSE NULL
         IN  IF pubsub_backend # NULL
             THEN Ret(set_last_error([reg EXCEPT !.m.current_backend = pubsub_backend],
                          RTK_MQTT_SUCCESS,
                          "MQTT client manager initialized with PubSubClient"),
                      RTK_MQTT_SUCCESS)
             ELSE Ret(set_last_error(reg, RTK_MQTT_ERROR_BACKEND_NOT_FOUND,
                          "PubSubClient backend not available"),
                      RTK_MQTT_ERROR_BACKEND_NOT_FOUND)

\* a manager that believes it is always connected
rtk_mqtt_is_connected_always(w) == Ret(w, 1)

rtk_mqtt_is_connected(w) ==
    IF no_backend(w) THEN Ret(w, 0) ELSE backend_is_connected(w)

\* a disconnect that does not ask whether the manager is connected
rtk_mqtt_disconnect_unasked(w, disc_ok) ==
    IF no_backend(w) THEN NoBackend(w)
    ELSE LET d == backend_disconnect(w, disc_ok)
         IN  IF d.ret # RTK_MQTT_SUCCESS
             THEN Ret(set_last_error(d.w, d.ret, "Disconnect failed"), d.ret)
             ELSE Ret(set_last_error(d.w, RTK_MQTT_SUCCESS, "Disconnected successfully"),
                      RTK_MQTT_SUCCESS)

rtk_mqtt_disconnect(w, disc_ok) ==
    IF no_backend(w) THEN NoBackend(w)
    ELSE LET c == rtk_mqtt_is_connected(w)
         IN  IF c.ret = 0
             THEN Ret(set_last_error(c.w, RTK_MQTT_SUCCESS, "Already disconnected"),
                      RTK_MQTT_SUCCESS)
             ELSE LET d == backend_disconnect(c.w, disc_ok)
                  IN  IF d.ret # RTK_MQTT_SUCCESS
                      THEN Ret(set_last_error(d.w, d.ret, "Disconnect failed"), d.ret)
                      ELSE Ret(set_last_error(d.w, RTK_MQTT_SUCCESS,
                                              "Disconnected successfully"),
                               RTK_MQTT_SUCCESS)

\* a connect that does not look at is_configured
connect_unconfigured_allowed(w) == FALSE

\* if (!mqtt_manager.is_configured) in rtk_mqtt_connect
connect_unconfigured(w) == w.m.is_configured = 0

rtk_mqtt_connect(w, connect_ok) ==
    IF no_backend(w) THEN NoBackend(w)
    ELSE IF connect_unconfigured(w)
    THEN Ret(set_last_error(w, RTK_MQTT_ERROR_INVALID_PARAM, "Client not configured"),
             RTK_MQTT_ERROR_INVALID_PARAM)
    ELSE LET c == rtk_mqtt_is_connected(w)
         IN  IF c.ret # 0
             THEN Ret(set_last_error(c.w, RTK_MQTT_ERROR_ALREADY_CONNECTED,
                                     "Already connected"),
                      RTK_MQTT_ERROR_ALREADY_CONNECTED)
             ELSE LET r == backend_connect(c.w, connect_ok)
                  IN  IF r.ret # RTK_MQTT_SUCCESS
                      THEN Ret(set_last_error(r.w, r.ret, "Connection failed"), r.ret)
                      ELSE Ret(set_last_error(r.w, RTK_MQTT_SUCCESS,
                                              "Connected successfully"),
                               RTK_MQTT_SUCCESS)

\* a reconnect that falls back to Connect alone
rtk_mqtt_reconnect_connect_only(w, disc_ok, connect_ok) ==
    IF no_backend(w) THEN NoBackend(w)
    ELSE IF Provides(w, "reconnect") THEN backend_reconnect(w, connect_ok)
    ELSE rtk_mqtt_connect(w, connect_ok)

rtk_mqtt_reconnect(w, disc_ok, connect_ok) ==
    IF no_backend(w) THEN NoBackend(w)
    ELSE IF Provides(w, "reconnect") THEN backend_reconnect(w, connect_ok)
    ELSE rtk_mqtt_connect(rtk_mqtt_disconnect(w, disc_ok).w, connect_ok)

\* the manager makes ops its current backend
Switched(w, ops) ==
    [w EXCEPT !.m.current_backend = ops,
              !.trace = Append(@, [backend |-> ops, fn |-> "current_backend"])]

rtk_mqtt_set_backend(w, ops, disc_ok) ==
    LET fail(msg) == Ret(set_last_error(w, RTK_MQTT_ERROR_INVALID_PARAM, msg),
                         RTK_MQTT_ERROR_INVALID_PARAM)
    IN  IF w.m.is_initialized = 0 THEN fail("Manager not initialized")
        ELSE IF ops = NULL THEN fail("Backend operations is NULL")
        ELSE IF ~(RequiredOps \subseteq BackendOps(ops))
        THEN fail("Incomplete backend operations")
        ELSE LET c == IF w.m.current_backend # NULL THEN rtk_mqtt_is_connected(w)
                      ELSE Ret(w, 0)
                 d == IF c.ret # 0 THEN rtk_mqtt_disconnect(c.w, disc_ok).w ELSE c.w
                 k == IF d.m.current_backend # NULL /\ Provides(d, "cleanup")
                      THEN backend_cleanup(d) ELSE d
                 s == [Switched(k, ops) EXCEPT !.m.is_configured = 0]
             IN  Ret(set_last_error(s, RTK_MQTT_SUCCESS, "Backend switched successfully"),
                     RTK_MQTT_SUCCESS)

rtk_mqtt_cleanup(w, disc_ok) ==
    IF w.m.is_initialized = 0 THEN Ret(w, RTK_MQTT_SUCCESS)
    ELSE LET c == IF w.m.current_backend # NULL THEN rtk_mqtt_is_connected(w)
                  ELSE Ret(w, 0)
             d == IF c.ret # 0 THEN rtk_mqtt_disconnect(c.w, disc_ok).w ELSE c.w
             k == IF d.m.current_backend # NULL /\ Provides(d, "cleanup")
                  THEN backend_cleanup(d) ELSE d
         IN  Ret([k EXCEPT !.m = ZeroManager], RTK_MQTT_SUCCESS)

\* a validation that accepts every port
rtk_mqtt_validate_config_any_port(w, config) ==
    LET fail(msg) == Ret(set_last_error(w, RTK_MQTT_ERROR_INVALID_PARAM, msg),
                         RTK_MQTT_ERROR_INVALID_PARAM)
    IN  IF config = NullConfig THEN fail("Config is NULL")
        ELSE IF config.broker_host = "" THEN fail("Broker host is empty")
        ELSE IF config.client_id = "" THEN fail("Client ID is empty")
        ELSE Ret(w, RTK_MQTT_SUCCESS)

rtk_mqtt_validate_config(w, config) ==
    LET fail(msg) == Ret(set_last_error(w, RTK_MQTT_ERROR_INVALID_PARAM, msg),
                         RTK_MQTT_ERROR_INVALID_PARAM)
    IN  IF config = NullConfig THEN fail("Config is NULL")
        ELSE IF config.broker_host = "" THEN fail("Broker host is empty")
        ELSE IF config.broker_port <= 0 \/ config.broker_port > 65535
        THEN fail("Invalid broker port")
        ELSE IF config.client_id = "" THEN fail("Client ID is empty")
        ELSE Ret(w, RTK_MQTT_SUCCESS)

rtk_mqtt_configure(w, config, alloc_ok) ==
    IF no_backend(w) THEN NoBackend(w)
    ELSE IF config = NullConfig
    THEN Ret(set_last_error(w, RTK_MQTT_ERROR_INVALID_PARAM, "Config is NULL"),
             RTK_MQTT_ERROR_INVALID_PARAM)
    ELSE LET v == rtk_mqtt_validate_config(w, config)
         IN  IF v.ret # RTK_MQTT_SUCCESS THEN v
             ELSE LET saved == [w EXCEPT !.m.current_config = config]
                      r == IF Provides(saved, "init")
                           THEN backend_init(saved, config, alloc_ok)
                           ELSE Ret(saved, RTK_MQTT_SUCCESS)
                  IN  IF r.ret # RTK_MQTT_SUCCESS
                      THEN Ret(set_last_error(r.w, r.ret, "Backend initialization failed"),
                               r.ret)
                      ELSE Ret(set_last_error([r.w EXCEPT !.m.is_configured = 1],
                                   RTK_MQTT_SUCCESS, "MQTT client configured successfully"),
                               RTK_MQTT_SUCCESS)

NotConnected(w) ==
    Ret(set_last_error(w, RTK_MQTT_ERROR_NOT_CONNECTED, "Not connected to broker"),
        RTK_MQTT_ERROR_NOT_CONNECTED)

\* message is the address of a local, never NULL
rtk_mqtt_publish_message(w, op_ok) ==
    IF no_backend(w) THEN NoBackend(w)
    ELSE LET c == rtk_mqtt_is_connected(w)
         IN  IF c.ret = 0 THEN NotConnected(c.w)
             ELSE LET r == backend_request(c.w, "publish", op_ok)
                  IN  IF r.ret # RTK_MQTT_SUCCESS
                      THEN Ret(set_last_error(r.w, r.ret, "Publish failed"), r.ret)
                      ELSE r

\* payload is a valid buffer
rtk_mqtt_publish(w, topic, op_ok) ==
    IF no_backend(w) THEN NoBackend(w)
    ELSE IF topic = NULL
    THEN Ret(set_last_error(w, RTK_MQTT_ERROR_INVALID_PARAM, "Invalid parameters"),
             RTK_MQTT_ERROR_INVALID_PARAM)
    ELSE LET c == rtk_mqtt_is_connected(w)
         IN  IF c.ret = 0 THEN NotConnected(c.w)
             ELSE rtk_mqtt_publish_message(c.w, op_ok)

\* rtk_mqtt_subscribe and rtk_mqtt_unsubscribe: fn names the backend
\* operation, failed_msg the message of a backend failure
subscribe_or_unsubscribe(w, fn, failed_msg, topic, op_ok) ==
    IF no_backend(w) THEN NoBackend(w)
    ELSE IF topic = NULL
    THEN Ret(set_last_error(w, RTK_MQTT_ERROR_INVALID_PARAM, "Topic is NULL"),
             RTK_MQTT_ERROR_INVALID_PARAM)
    ELSE LET c == rtk_mqtt_is_connected(w)
         IN  IF c.ret = 0 THEN NotConnected(c.w)
             ELSE LET r == backend_request(c.w, fn, op_ok)
                  IN  IF r.ret # RTK_MQTT_SUCCESS
                      THEN Ret(set_last_error(r.w, r.ret, failed_msg), r.ret)
                      ELSE r

rtk_mqtt_subscribe(w, topic, op_ok) ==
    subscribe_or_unsubscribe(w, "subscribe", "Subscribe failed", topic, op_ok)

rtk_mqtt_unsubscribe(w, topic, op_ok) ==
    subscribe_or_unsubscribe(w, "unsubscribe", "Unsubscribe failed", topic, op_ok)

rtk_mqtt_loop(w) ==
    IF no_backend(w) THEN NoBackend(w)
    ELSE IF Provides(w, "loop") THEN backend_loop(w)
    ELSE Ret(w, RTK_MQTT_SUCCESS)

rtk_mqtt_yield(w) ==
    IF no_backend(w) THEN NoBackend(w)
    ELSE IF Provides(w, "yield") THEN backend_yield(w)
    ELSE IF Provides(w, "loop") THEN backend_loop(w)
    ELSE Ret(w, RTK_MQTT_SUCCESS)

rtk_mqtt_set_message_callback(w, callback) ==
    LET stored == [w EXCEPT !.m.global_message_callback = callback]
    IN  IF stored.m.current_backend # NULL /\ Provides(stored, "set_callback")
        THEN backend_set_callback(stored, callback)
        ELSE Ret(stored, RTK_MQTT_SUCCESS)

rtk_mqtt_set_connection_callback(w, callback) ==
    Ret([w EXCEPT !.m.global_connection_callback = callback], RTK_MQTT_SUCCESS)

\* ---- inputs of the backend manager ----

\* rtk_mqtt_config_t values a caller passes to rtk_mqtt_configure, by name
ConfigArgs == {"null", "A", "B", "nohost", "port0", "port65536", "noid"}

Config(name) ==
    CASE name = "null" -> NullConfig
      [] name = "A" -> [broker_host |-> "a.example", broker_port |-> 1883, client_id |-> "dev"]
      [] name = "B" -> [broker_host |-> "b.example", broker_port |-> 65535, client_id |-> "dev"]
      [] name = "nohost" -> [broker_host |-> "", broker_port |-> 1883, client_id |-> "dev"]
      [] name = "port0" -> [broker_host |-> "a.example", broker_port |-> 0, client_id |-> "dev"]
      [] name = "port65536" ->
             [broker_host |-> "a.example", broker_port |-> 65536, client_id |-> "dev"]
      [] OTHER -> [broker_host |-> "a.example", broker_port |-> 1883, client_id |-> ""]

TopicArgs == {"t", NULL}

OpsArgs == BackendNames \cup {NULL}

\* ---- the operations as steps ----

MqttInitState ==
    /\ mqtt_manager = ZeroManager
    /\ pubsub_state = ZeroPubsub
    /\ g_wrapper = InitWrapper
    /\ link = FALSE
    /\ custom_connected = 0
    /\ mq_last = [op |-> "none", arg |-> "", ret |-> RTK_MQTT_SUCCESS, trace |-> <<>>,
                  invoked |-> <<>>]

Commit(r, op, arg) ==
    /\ mqtt_manager' = r.w.m
    /\ pubsub_state' = r.w.p
    /\ g_wrapper' = r.w.g
    /\ link' = r.w.link
    /\ custom_connected' = r.w.cust
    /\ mq_last' = [op |-> op, arg |-> arg, ret |-> r.ret, trace |-> r.w.trace,
                   invoked |-> r.w.invoked]

MqttInit == Commit(rtk_mqtt_init(World), "init", "")

MqttCleanup(disc_ok) == Commit(rtk_mqtt_cleanup(World, disc_ok), "cleanup", "")

MqttRegisterBackend(ops) ==
    Commit(rtk_mqtt_register_backend(World, ops, ops), "register_backend", ops)

\* rtk_mqtt_register_backend under a name of the caller's choosing
MqttRegisterBackendAs(name, ops) ==
    Commit(rtk_mqtt_register_backend(World, name, ops), "register_backend", name)

MqttSetBackend(ops, disc_ok) ==
    Commit(rtk_mqtt_set_backend(World, ops, disc_ok), "set_backend", ops)

MqttConfigure(c, alloc_ok) ==
    Commit(rtk_mqtt_configure(World, Config(c), alloc_ok), "configure", c)

MqttConnect(connect_ok) == Commit(rtk_mqtt_connect(World, connect_ok), "connect", "")

MqttDisconnect(disc_ok) == Commit(rtk_mqtt_disconnect(World, disc_ok), "disconnect", "")

MqttIsConnected == Commit(rtk_mqtt_is_connected(World), "is_connected", "")

MqttReconnect(disc_ok, connect_ok) ==
    Commit(rtk_mqtt_reconnect(World, disc_ok, connect_ok), "reconnect", "")

MqttPublish(topic, op_ok) == Commit(rtk_mqtt_publish(World, topic, op_ok), "publish", topic)

MqttSubscribe(topic, op_ok) ==
    Commit(rtk_mqtt_subscribe(World, topic, op_ok), "subscribe", topic)

MqttUnsubscribe(topic, op_ok) ==
    Commit(rtk_mqtt_unsubscribe(World, topic, op_ok), "unsubscribe", topic)

MqttLoop == Commit(rtk_mqtt_loop(World), "loop", "")

MqttYield == Commit(rtk_mqtt_yield(World), "yield", "")

\* rtk_mqtt_loop while one PUBLISH packet is waiting on the session
MqttLoopInbound ==
    Commit(rtk_mqtt_loop([World EXCEPT !.inbox = 1]), "loop", "inbound")

MqttSetMessageCallback(callback) ==
    Commit(rtk_mqtt_set_message_callback(World, callback), "set_message_callback", callback)

MqttSetConnectionCallback(callback) ==
    Commit(rtk_mqtt_set_connection_callback(World, callback), "set_connection_callback",
           callback)

\* the broker or the network drops the session: PosixNetworkClient::connected
\* and PubSubClient::connected report it from now on
ConnectionLost ==
    /\ link
    /\ link' = FALSE
    /\ mq_last' = [op |-> "connection_lost", arg |-> "", ret |-> RTK_MQTT_SUCCESS,
                   trace |-> <<>>, invoked |-> <<>>]
    /\ UNCHANGED <<mqtt_manager, pubsub_state, g_wrapper, custom_connected>>

\* ======================================================================
\* Schema registry and validator (framework/src/schema_validator.c)
\* ======================================================================
\* A JSON text and a schema name are TLA+ strings.  cJSON is a library
\* outside the repository: a cJSON item is a record, cJSON_Parse is the table
\* of the texts used here.

RTK_SCHEMA_SUCCESS == 0
RTK_SCHEMA_ERROR_INVALID_PARAM == -1
RTK_SCHEMA_ERROR_NOT_FOUND == -2
RTK_SCHEMA_ERROR_INVALID_JSON == -3
RTK_SCHEMA_ERROR_VALIDATION == -4
RTK_SCHEMA_ERROR_MEMORY == -5
MAX_SCHEMAS == 32
SchemaNameSize == 64

RTK_SCHEMA_NAME_STATE_V1_0 == "state/1.0"
RTK_SCHEMA_NAME_EVT_WIFI_ROAM_MISS_V1_0 == "evt.wifi.roam_miss/1.0"
RTK_SCHEMA_NAME_CMD_DIAGNOSIS_GET_V1_0 == "cmd.diagnosis.get/1.0"
RTK_SCHEMA_NAME_ATTR_V1_0 == "attr/1.0"
RTK_SCHEMA_NAME_LWT_V1_0 == "lwt/1.0"

\* ---- cJSON items ----
Item(type, string, valuestring, child) ==
    [type |-> type, string |-> string, valuestring |-> valuestring, child |-> child]
\* the null cJSON pointer
NoItem == Item("nullptr", NULL, NULL, <<>>)
JString(key, s) == Item("string", key, s, <<>>)
JNumber(key) == Item("number", key, NULL, <<>>)
JObject(key, members) == Item("object", key, NULL, members)
JArray(key, elements) == Item("array", key, NULL, elements)

cJSON_IsString(item) == item.type = "string"
cJSON_IsArray(item) == item.type = "array"
cJSON_IsObject(item) == item.type = "object"

MinOf(S) == CHOOSE i \in S : \A j \in S : i <= j
MaxOf(S) == CHOOSE i \in S : \A j \in S : j <= i

\* the first member with that key, the null pointer when there is none
cJSON_GetObjectItemCaseSensitive(object, name) ==
    LET hits == {i \in 1..Len(object.child) : object.child[i].string = name}
    IN IF hits = {} THEN NoItem ELSE object.child[MinOf(hits)]

\* ---- the built-in schema texts; of each text the tree below keeps the
\* ---- top-level "required" array and the "const" of every top-level property
STATE_V1_0_SCHEMA == "STATE_V1_0_SCHEMA"
WIFI_ROAM_MISS_V1_0_SCHEMA == "WIFI_ROAM_MISS_V1_0_SCHEMA"
LWT_V1_0_SCHEMA == "LWT_V1_0_SCHEMA"
CMD_DIAGNOSIS_GET_V1_0_SCHEMA == "CMD_DIAGNOSIS_GET_V1_0_SCHEMA"
\* schema texts of the application
CUSTOM_SCHEMA == "CUSTOM_SCHEMA"
OTHER_STATE_SCHEMA == "OTHER_STATE_SCHEMA"

Required(fields) == JArray("required", [i \in 1..Len(fields) |-> JString(NULL, fields[i])])
Const(key, value) == JObject(key, <<JString("const", value)>>)
Plain(key) == JObject(key, <<>>)

StateSchemaTree ==
    JObject(NULL, << Required(<<"schema", "ts", "health">>),
                     JObject("properties", << Const("schema", "state/1.0"), Plain("ts"),
                                              Plain("health"), Plain("fw"), Plain("uptime_s"),
                                              Plain("cpu_usage"), Plain("memory_usage"),
                                              Plain("temperature_c"), Plain("trace") >>) >>)
RoamMissSchemaTree ==
    JObject(NULL, << Required(<<"schema", "ts", "severity", "trigger_info", "diagnosis">>),
                     JObject("properties", << Const("schema", "evt.wifi.roam_miss/1.0"),
                                              Plain("ts"), Plain("severity"),
                                              Plain("trigger_info"), Plain("diagnosis") >>) >>)
LwtSchemaTree ==
    JObject(NULL, << Required(<<"status", "ts">>),
                     JObject("properties", << Plain("status"), Plain("ts"), Plain("reason") >>) >>)
CmdDiagnosisGetSchemaTree ==
    JObject(NULL, << Required(<<"id", "op", "schema", "args">>),
                     JObject("properties", << Plain("id"), Const("op", "diagnosis.get"),
                                              Const("schema", "cmd.diagnosis.get/1.0"),
                                              Plain("args"), Plain("timeout_ms"),
                                              Plain("expect"), Plain("ts") >>) >>)
CustomSchemaTree ==
    JObject(NULL, << Required(<<"v", "schema">>),
                     JObject("properties", << Const("schema", "custom/1.0"), Plain("v") >>) >>)
OtherStateSchemaTree ==
    JObject(NULL, << Required(<<"v">>), JObject("properties", << Plain("v") >>) >>)

\* ---- the JSON texts handed to the validator ----
LongSchemaName == "xxxxxxxxxxxxxxxxxxxxxxxxxxxxxxxxxxxxxxxxxxxxxxxxxxxxxxxxxxxxxxxx"
DocState == "{\"schema\":\"state/1.0\",\"ts\":1,\"health\":\"ok\"}"
DocStateNoSchema == "{\"ts\":1,\"health\":\"ok\"}"
DocStateHealthOnly == "{\"health\":\"ok\"}"
DocStateSchemaOnly == "{\"schema\":\"state/1.0\"}"
DocStateV2 == "{\"schema\":\"state/2.0\",\"ts\":1,\"health\":\"ok\"}"
DocStateNumericSchema == "{\"schema\":5,\"ts\":1,\"health\":\"ok\"}"
DocCmd == "{\"id\":\"x\",\"op\":\"diagnosis.get\",\"schema\":\"cmd.diagnosis.get/1.0\",\"args\":{}}"
DocCmdOtherOp == "{\"id\":\"x\",\"op\":\"reboot\",\"schema\":\"cmd.diagnosis.get/1.0\",\"args\":{}}"
DocCmdNoOpNoArgs == "{\"id\":\"x\",\"schema\":\"cmd.diagnosis.get/1.0\"}"
DocLwt == "{\"status\":\"online\",\"ts\":1}"
DocCustom == "{\"v\":1,\"schema\":\"custom/1.0\"}"
DocVOnly == "{\"v\":1}"
DocLongSchema == "{\"schema\":\"" \o LongSchemaName \o "\"}"
DocEmptyArray == "[]"
DocTruncated == "{\"ts\":1"

Docs == {DocState, DocStateNoSchema, DocStateHealthOnly, DocStateSchemaOnly, DocStateV2,
         DocStateNumericSchema, DocCmd, DocCmdOtherOp, DocCmdNoOpNoArgs, DocLwt, DocCustom,
         DocLongSchema, DocEmptyArray, DocTruncated}

cJSON_Parse(text) ==
    CASE text = DocState ->
            JObject(NULL, <<JString("schema", "state/1.0"), JNumber("ts"), JString("health", "ok")>>)
      [] text = DocStateNoSchema -> JObject(NULL, <<JNumber("ts"), JString("health", "ok")>>)
      [] text = DocStateHealthOnly -> JObject(NULL, <<JString("health", "ok")>>)
      [] text = DocStateSchemaOnly -> JObject(NULL, <<JString("schema", "state/1.0")>>)
      [] text = DocStateV2 ->
            JObject(NULL, <<JString("schema", "state/2.0"), JNumber("ts"), JString("health", "ok")>>)
      [] text = DocStateNumericSchema ->
            JObject(NULL, <<JNumber("schema"), JNumber("ts"), JString("health", "ok")>>)
      [] text = DocCmd ->
            JObject(NULL, <<JString("id", "x"), JString("op", "diagnosis.get"),
                            JString("schema", "cmd.diagnosis.get/1.0"), JObject("args", <<>>)>>)
      [] text = DocCmdOtherOp ->
            JObject(NULL, <<JString("id", "x"), JString("op", "reboot"),
                            JString("schema", "cmd.diagnosis.get/1.0"), JObject("args", <<>>)>>)
      [] text = DocCmdNoOpNoArgs ->
            JObject(NULL, <<JString("id", "x"), JString("schema", "cmd.diagnosis.get/1.0")>>)
      [] text = DocLwt -> JObject(NULL, <<JString("status", "online"), JNumber("ts")>>)
      [] text = DocCustom -> JObject(NULL, <<JNumber("v"), JString("schema", "custom/1.0")>>)
      [] text = DocVOnly -> JObject(NULL, <<JNumber("v")>>)
      [] text = DocLongSchema -> JObject(NULL, <<JString("schema", LongSchemaName)>>)
      [] text = DocEmptyArray -> JArray(NULL, <<>>)
      [] text = STATE_V1_0_SCHEMA -> StateSchemaTree
      [] text = WIFI_ROAM_MISS_V1_0_SCHEMA -> RoamMissSchemaTree
      [] text = LWT_V1_0_SCHEMA -> LwtSchemaTree
      [] text = CMD_DIAGNOSIS_GET_V1_0_SCHEMA -> CmdDiagnosisGetSchemaTree
      [] text = CUSTOM_SCHEMA -> CustomSchemaTree
      [] text = OTHER_STATE_SCHEMA -> OtherStateSchemaTree
      [] OTHER -> NoItem

\* ---- rtk_schema_definition_t and rtk_validation_result_t ----
SchemaDef(name, json_schema) == [name |-> name, json_schema |-> json_schema]
ZeroResult == [is_valid |-> 0, error_message |-> "", error_path |-> "", error_line |-> 0]
\* what an earlier call left in the caller's structure
StaleResult == [is_valid |-> 1, error_message |-> "Missing required field: old",
                error_path |-> "/old", error_line |-> 0]
\* the caller's structure behind a result pointer
Deref(result) == IF result = "stale" THEN StaleResult ELSE ZeroResult
SRet(ret, result) == [ret |-> ret, result |-> result]

SchemaInit ==
    /\ registered_schemas = <<>>
    /\ schema_count = 0
    /\ schema_is_initialized = 0
    /\ sv_last = [op |-> "none", json |-> NULL, schema_name |-> NULL, result_arg |-> NULL,
                  ret |-> 0, result |-> ZeroResult]

\* the table after add_schema_definition, and its return value
add_schema_definition(table, count, name, json_schema) ==
    IF count >= MAX_SCHEMAS
    THEN [table |-> table, count |-> count, ret |-> RTK_SCHEMA_ERROR_MEMORY]
    ELSE [table |-> IF count + 1 <= Len(table)
                    THEN [table EXCEPT ![count + 1] = SchemaDef(name, json_schema)]
                    ELSE Append(table, SchemaDef(name, json_schema)),
          count |-> count + 1, ret |-> RTK_SCHEMA_SUCCESS]

rtk_schema_register_builtin_schemas(table, count) ==
    LET a == add_schema_definition(table, count, RTK_SCHEMA_NAME_STATE_V1_0, STATE_V1_0_SCHEMA)
        b == add_schema_definition(a.table, a.count, RTK_SCHEMA_NAME_EVT_WIFI_ROAM_MISS_V1_0,
                                   WIFI_ROAM_MISS_V1_0_SCHEMA)
        c == add_schema_definition(b.table, b.count, RTK_SCHEMA_NAME_LWT_V1_0, LWT_V1_0_SCHEMA)
        d == add_schema_definition(c.table, c.count, RTK_SCHEMA_NAME_CMD_DIAGNOSIS_GET_V1_0,
                                   CMD_DIAGNOSIS_GET_V1_0_SCHEMA)
    IN IF a.ret # RTK_SCHEMA_SUCCESS THEN a
       ELSE IF b.ret # RTK_SCHEMA_SUCCESS THEN b
       ELSE IF c.ret # RTK_SCHEMA_SUCCESS THEN c
       ELSE d

\* a lookup that returns the definition registered last under the name
rtk_schema_find_last_by_name(schema_name) ==
    IF schema_name = NULL \/ schema_is_initialized = 0 THEN 0
    ELSE LET hits == {i \in 1..schema_count : registered_schemas[i].name = schema_name}
         IN IF hits = {} THEN 0 ELSE MaxOf(hits)

\* index of the definition found, 0 for the null pointer
rtk_schema_find_by_name(schema_name) ==
    IF schema_name = NULL \/ schema_is_initialized = 0 THEN 0
    ELSE LET hits == {i \in 1..schema_count : registered_schemas[i].name = schema_name}
         IN IF hits = {} THEN 0 ELSE MinOf(hits)

\* a walk that reports the last missing field instead of the first
last_missing_required(json_obj, required) ==
    LET missing == {i \in 1..Len(required.child) :
                       /\ cJSON_IsString(required.child[i])
                       /\ cJSON_GetObjectItemCaseSensitive(json_obj, required.child[i].valuestring)
                             = NoItem}
    IN IF missing = {} THEN 0 ELSE MaxOf(missing)

\* the walk over the "required" array: index of the entry it stops at, 0 when
\* every required field is present
first_missing_required(json_obj, required) ==
    LET missing == {i \in 1..Len(required.child) :
                       /\ cJSON_IsString(required.child[i])
                       /\ cJSON_GetObjectItemCaseSensitive(json_obj, required.child[i].valuestring)
                             = NoItem}
    IN IF missing = {} THEN 0 ELSE MinOf(missing)

\* the comparison of the "schema" property: TRUE when it flags a mismatch
schema_const_mismatch(json_obj, properties) ==
    LET schema_prop == cJSON_GetObjectItemCaseSensitive(properties, "schema")
        schema_const == cJSON_GetObjectItemCaseSensitive(schema_prop, "const")
        json_schema == cJSON_GetObjectItemCaseSensitive(json_obj, "schema")
    IN /\ cJSON_IsObject(properties)
       /\ schema_prop # NoItem
       /\ cJSON_IsString(schema_const)
       /\ json_schema # NoItem /\ cJSON_IsString(json_schema)
       /\ schema_const.valuestring # json_schema.valuestring

validate_json_against_schema(json, schema_json, result) ==
    IF json = NULL \/ schema_json = NULL \/ result = NULL
    THEN SRet(RTK_SCHEMA_ERROR_INVALID_PARAM, Deref(result))
    ELSE LET cleared == [ZeroResult EXCEPT !.is_valid = 1]
             json_obj == cJSON_Parse(json)
             schema_obj == cJSON_Parse(schema_json)
             required == cJSON_GetObjectItemCaseSensitive(schema_obj, "required")
             stop == IF cJSON_IsArray(required)
                     THEN first_missing_required(json_obj, required) ELSE 0
             properties == cJSON_GetObjectItemCaseSensitive(schema_obj, "properties")
         IN IF json_obj = NoItem
            THEN SRet(RTK_SCHEMA_ERROR_INVALID_JSON,
                      [cleared EXCEPT !.is_valid = 0, !.error_message = "Invalid JSON syntax"])
            ELSE IF schema_obj = NoItem THEN SRet(RTK_SCHEMA_SUCCESS, cleared)
            ELSE IF stop # 0
            THEN LET field_name == required.child[stop].valuestring
                 IN SRet(RTK_SCHEMA_ERROR_VALIDATION,
                         [cleared EXCEPT !.is_valid = 0,
                                         !.error_message = "Missing required field: " \o field_name,
                                         !.error_path = "/" \o field_name])
            ELSE IF schema_const_mismatch(json_obj, properties)
            THEN SRet(RTK_SCHEMA_ERROR_VALIDATION,
                      [cleared EXCEPT !.is_valid = 0,
                                      !.error_message = "Schema field mismatch",
                                      !.error_path = "/schema"])
            ELSE SRet(RTK_SCHEMA_SUCCESS, cleared)

rtk_schema_validate_json(json, schema_name, result) ==
    IF json = NULL \/ schema_name = NULL \/ result = NULL \/ schema_is_initialized = 0
    THEN SRet(RTK_SCHEMA_ERROR_INVALID_PARAM, Deref(result))
    ELSE LET schema == rtk_schema_find_by_name(schema_name)
         IN IF schema = 0
            THEN SRet(RTK_SCHEMA_ERROR_NOT_FOUND,
                      [Deref(result) EXCEPT !.is_valid = 0,
                                            !.error_message = "Schema not found: " \o schema_name])
            ELSE validate_json_against_schema(json, registered_schemas[schema].json_schema, result)

\* the return value and the name copied into the buffer
rtk_schema_extract_name_from_json(json, buffer_size) ==
    IF json = NULL \/ buffer_size = 0
    THEN [ret |-> RTK_SCHEMA_ERROR_INVALID_PARAM, buffer |-> NULL]
    ELSE LET json_obj == cJSON_Parse(json)
             schema == cJSON_GetObjectItemCaseSensitive(json_obj, "schema")
         IN IF json_obj = NoItem THEN [ret |-> RTK_SCHEMA_ERROR_INVALID_JSON, buffer |-> NULL]
            ELSE IF schema = NoItem \/ ~cJSON_IsString(schema)
            THEN [ret |-> RTK_SCHEMA_ERROR_NOT_FOUND, buffer |-> NULL]
            ELSE IF Len(schema.valuestring) >= buffer_size
            THEN [ret |-> RTK_SCHEMA_ERROR_MEMORY, buffer |-> NULL]
            ELSE [ret |-> Len(schema.valuestring), buffer |-> schema.valuestring]

rtk_schema_auto_validate_json(json, result) ==
    IF json = NULL \/ result = NULL \/ schema_is_initialized = 0
    THEN SRet(RTK_SCHEMA_ERROR_INVALID_PARAM, Deref(result))
    ELSE LET extracted == rtk_schema_extract_name_from_json(json, SchemaNameSize)
         IN IF extracted.ret < 0
            THEN SRet(RTK_SCHEMA_ERROR_INVALID_JSON,
                      [Deref(result) EXCEPT !.is_valid = 0,
                          !.error_message = "Cannot extract schema name from JSON"])
            ELSE rtk_schema_validate_json(json, extracted.buffer, result)

\* ---- the calls of an application ----
SchemaCalled(op, json, schema_name, result_arg, r) ==
    sv_last' = [op |-> op, json |-> json, schema_name |-> schema_name,
                result_arg |-> result_arg, ret |-> r.ret, result |-> r.result]

rtk_schema_validator_init ==
    LET r == rtk_schema_register_builtin_schemas(<<>>, 0)
    IN /\ IF schema_is_initialized # 0
          THEN UNCHANGED <<registered_schemas, schema_count, schema_is_initialized>>
          ELSE /\ registered_schemas' = r.table
               /\ schema_count' = r.count
               /\ schema_is_initialized' = IF r.ret = RTK_SCHEMA_SUCCESS THEN 1 ELSE 0
       /\ SchemaCalled("init", NULL, NULL, NULL,
                       SRet(IF schema_is_initialized # 0 THEN RTK_SCHEMA_SUCCESS ELSE r.ret,
                            ZeroResult))

rtk_schema_validator_cleanup ==
    /\ schema_count' = 0
    /\ schema_is_initialized' = 0
    /\ UNCHANGED registered_schemas
    /\ SchemaCalled("cleanup", NULL, NULL, NULL, SRet(RTK_SCHEMA_SUCCESS, ZeroResult))

rtk_schema_register_custom(schema_def) ==
    LET r == add_schema_definition(registered_schemas, schema_count,
                                   schema_def.name, schema_def.json_schema)
    IN IF schema_is_initialized = 0
       THEN /\ UNCHANGED <<registered_schemas, schema_count, schema_is_initialized>>
            /\ SchemaCalled("register", schema_def.json_schema, schema_def.name, NULL,
                            SRet(RTK_SCHEMA_ERROR_INVALID_PARAM, ZeroResult))
       ELSE /\ registered_schemas' = r.table
            /\ schema_count' = r.count
            /\ UNCHANGED schema_is_initialized
            /\ SchemaCalled("register", schema_def.json_schema, schema_def.name, NULL,
                            SRet(r.ret, ZeroResult))

SchemaValidate(json, schema_name, result) ==
    /\ SchemaCalled("validate", json, schema_name, result,
                    rtk_schema_validate_json(json, schema_name, result))
    /\ UNCHANGED <<registered_schemas, schema_count, schema_is_initialized>>

SchemaAutoValidate(json, result) ==
    /\ SchemaCalled("auto_validate", json, NULL, result,
                    rtk_schema_auto_validate_json(json, result))
    /\ UNCHANGED <<registered_schemas, schema_count, schema_is_initialized>>

\* ---- inputs ----
MaxCustom == 1
CustomDefs == {SchemaDef("custom/1.0", CUSTOM_SCHEMA),
               SchemaDef(RTK_SCHEMA_NAME_STATE_V1_0, OTHER_STATE_SCHEMA)}
JsonArgs == Docs \cup {NULL}
SchemaNameArgs == {RTK_SCHEMA_NAME_STATE_V1_0, RTK_SCHEMA_NAME_CMD_DIAGNOSIS_GET_V1_0,
                   RTK_SCHEMA_NAME_LWT_V1_0, RTK_SCHEMA_NAME_ATTR_V1_0, "custom/1.0",
                   LongSchemaName, NULL}
ResultArgs == {"fresh", "stale", NULL}

\* ======================================================================
\* Message codec (framework/src/message_codec.c)
\* ======================================================================
\* ---- encoders ----
\* A JSON object is modelled by the sequence of its top-level members, in
\* the order in which they are written; text is the member as it is printed.

Quoted(s) == "\"" \o s \o "\""
Member(key, kind, value) == [key |-> key, kind |-> kind, text |-> Quoted(key) \o ":" \o value]
StringMember(key, s) == Member(key, "string", Quoted(s))
IntegerMember(key, n) == Member(key, "integer", ToString(n))

RECURSIVE JoinMembers(_)
JoinMembers(members) ==
    IF members = <<>> THEN ""
    ELSE IF Len(members) = 1 THEN members[1].text
    ELSE members[1].text \o "," \o JoinMembers(Tail(members))

\* cJSON_PrintUnformatted of an object; also what the snprintf formats print
Serialize(members) == "{" \o JoinMembers(members) \o "}"

\* float values between 256 and 512 in magnitude are the multiples of 2^-15;
\* a float is modelled by its count of 2^-15, exact for every input used here
FloatGrid == 32768
Abs(n) == IF n < 0 THEN 0 - n ELSE n
\* the float nearest to a decimal constant given in hundredths
to_float(hundredths) ==
    LET q == (2 * Abs(hundredths) * (FloatGrid \div 4) + 25) \div 50
    IN IF hundredths < 0 THEN 0 - q ELSE q
\* the double constant -273.15 of the temperature test, in hundredths
ABSOLUTE_ZERO_HUNDREDTHS == 0 - 27315
\* (double)f > -273.15: no float is equal to the constant, and the double
\* nearest to it lies within 2^-44 of it
above_absolute_zero(f) == f * 100 > ABSOLUTE_ZERO_HUNDREDTHS * FloatGrid

\* print_number of cJSON for the float values used here
print_number(f) ==
    CASE f = to_float(0) -> "0"
      [] f = to_float(0 - 100) -> "-1"
      [] f = to_float(5050) -> "50.5"
      [] f = to_float(2550) -> "25.5"
      [] f = to_float(0 - 30000) -> "-300"
      [] f = to_float(0 - 27315) -> "-273.14999389648438"
      [] OTHER -> ToString(f) \o "/32768"
NumberMember(key, f) == Member(key, "number", print_number(f))

NullPtr == [null |-> TRUE]
NoTrace == [req_id |-> "", correlation_id |-> "", span_id |-> ""]
Header(schema, timestamp, has_trace, trace) ==
    [schema |-> schema, timestamp |-> timestamp, has_trace |-> has_trace, trace |-> trace]

\* the members of the trace object, for both ways of writing it
trace_members(trace) ==
    (IF Len(trace.req_id) > 0 THEN <<StringMember("req_id", trace.req_id)>> ELSE <<>>)
    \o (IF Len(trace.correlation_id) > 0
        THEN <<StringMember("correlation_id", trace.correlation_id)>> ELSE <<>>)
    \o (IF Len(trace.span_id) > 0 THEN <<StringMember("span_id", trace.span_id)>> ELSE <<>>)

\* the trace block of the cJSON encoders: an object whenever has_trace is set
header_trace(header) ==
    IF header.has_trace # 0
    THEN <<Member("trace", "object", Serialize(trace_members(header.trace)))>>
    ELSE <<>>

\* encode_trace_info: nothing at all when every field is empty
encode_trace_info(trace) ==
    IF trace = NullPtr THEN <<>>
    ELSE IF trace_members(trace) # <<>>
    THEN <<Member("trace", "object", Serialize(trace_members(trace)))>>
    ELSE <<>>

\* cJSON_Parse of custom_data followed by the merge loop: the members added
CUSTOM_SITE == "{\"site\":\"lab\"}"
CUSTOM_NOT_JSON == "site=lab"
custom_members(custom_data) ==
    CASE custom_data = CUSTOM_SITE -> <<StringMember("site", "lab")>>
      [] OTHER -> <<>>

NoEncoded == [op |-> "none", message |-> NullPtr, size |-> 0, ret |-> 0, members |-> <<>>,
              buffer |-> ""]

\* what an encoder returns and leaves in the buffer for the object it built;
\* the snprintf encoders leave the truncated text and the cJSON encoders leave
\* the buffer alone when the text does not fit
Encoded(op, message, size, members, truncates) ==
    LET text == Serialize(members)
    IN IF Len(text) < size
       THEN [op |-> op, message |-> message, size |-> size, ret |-> Len(text),
             members |-> members, buffer |-> text]
       ELSE [op |-> op, message |-> message, size |-> size, ret |-> 0 - 1,
             members |-> members,
             buffer |-> IF truncates THEN SubSeq(text, 1, size - 1) ELSE ""]
Refused(op, message, size) ==
    [op |-> op, message |-> message, size |-> size, ret |-> 0 - 1, members |-> <<>>,
     buffer |-> ""]

state_members(message) ==
    <<StringMember("schema", message.header.schema),
      IntegerMember("ts", message.header.timestamp)>>
    \o header_trace(message.header)
    \o <<StringMember("health", message.health)>>
    \o (IF Len(message.fw_version) > 0 THEN <<StringMember("fw", message.fw_version)>> ELSE <<>>)
    \o (IF message.uptime_seconds > 0
        THEN <<IntegerMember("uptime_s", message.uptime_seconds)>> ELSE <<>>)
    \o (IF message.cpu_usage >= 0 THEN <<NumberMember("cpu_usage", message.cpu_usage)>> ELSE <<>>)
    \o (IF message.memory_usage >= 0
        THEN <<NumberMember("memory_usage", message.memory_usage)>> ELSE <<>>)
    \o (IF above_absolute_zero(message.temperature)
        THEN <<NumberMember("temperature_c", message.temperature)>> ELSE <<>>)
    \o (IF Len(message.custom_data) > 0 THEN custom_members(message.custom_data) ELSE <<>>)

rtk_encode_state_message(message, buffer_size) ==
    IF message = NullPtr \/ buffer_size = 0 THEN Refused("state", message, buffer_size)
    ELSE Encoded("state", message, buffer_size, state_members(message), FALSE)

rtk_severity_to_string(severity) ==
    CASE severity = 1 -> "warning"
      [] severity = 2 -> "error"
      [] severity = 3 -> "critical"
      [] OTHER -> "info"

event_members(message) ==
    <<StringMember("schema", message.header.schema),
      IntegerMember("ts", message.header.timestamp)>>
    \o header_trace(message.header)
    \o <<IntegerMember("seq", message.sequence),
         StringMember("severity", rtk_severity_to_string(message.severity)),
         StringMember("message", message.message),
         StringMember("source", message.source)>>
    \o (IF Len(message.custom_data) > 0 THEN custom_members(message.custom_data) ELSE <<>>)

rtk_encode_event_message(message, buffer_size) ==
    IF message = NullPtr \/ buffer_size = 0 THEN Refused("event", message, buffer_size)
    ELSE Encoded("event", message, buffer_size, event_members(message), FALSE)

command_members(message) ==
    <<StringMember("id", message.id),
      StringMember("op", message.operation),
      StringMember("schema", message.header.schema),
      Member("args", "raw", IF Len(message.args) > 0 THEN message.args ELSE "{}"),
      IntegerMember("timeout_ms", message.timeout_ms),
      StringMember("expect", message.expect),
      IntegerMember("ts", message.header.timestamp)>>
    \o (IF message.header.has_trace # 0 THEN encode_trace_info(message.header.trace) ELSE <<>>)
    \o (IF Len(message.reply_to) > 0 THEN <<StringMember("reply_to", message.reply_to)>>
        ELSE <<>>)

rtk_encode_command_message(message, buffer_size) ==
    IF message = NullPtr \/ buffer_size = 0 THEN Refused("command", message, buffer_size)
    ELSE Encoded("command", message, buffer_size, command_members(message), TRUE)

\* the format opens the err object with the code and closes it with the msg
response_members(response) ==
    <<StringMember("id", response.id),
      IntegerMember("ts", response.header.timestamp),
      Member("ok", "bool", IF response.ok # 0 THEN "true" ELSE "false"),
      Member("result", "raw", IF Len(response.result) > 0 THEN response.result ELSE "null")>>
    \o (IF Len(response.progress) > 0 THEN <<StringMember("progress", response.progress)>>
        ELSE <<>>)
    \o (IF Len(response.error_code) > 0
        THEN <<[key |-> "err", kind |-> "object",
                text |-> "\"err\":{\"code\":" \o Quoted(response.error_code)
                         \o (IF Len(response.error_message) > 0
                             THEN ",\"msg\":" \o Quoted(response.error_message) \o "}"
                             ELSE "")]>>
        ELSE IF Len(response.error_message) > 0
        THEN <<[key |-> "msg", kind |-> "string",
                text |-> "\"msg\":" \o Quoted(response.error_message) \o "}"]>>
        ELSE <<>>)

rtk_encode_command_response(response, buffer_size) ==
    IF response = NullPtr \/ buffer_size = 0 THEN Refused("response", response, buffer_size)
    ELSE Encoded("response", response, buffer_size, response_members(response), TRUE)

lwt_members(status, reason, timestamp) ==
    <<StringMember("status", status), IntegerMember("ts", timestamp)>>
    \o (IF reason # NULL THEN <<StringMember("reason", reason)>> ELSE <<>>)

rtk_encode_lwt_message(status, reason, timestamp, buffer_size) ==
    LET message == [status |-> status, reason |-> reason]
    IN IF status = NULL \/ buffer_size = 0 THEN Refused("lwt", message, buffer_size)
       ELSE Encoded("lwt", message, buffer_size, lwt_members(status, reason, timestamp), TRUE)

\* custom_json is copied as it is after a comma
generic_members(schema, custom_json, trace, timestamp) ==
    <<StringMember("schema", schema), IntegerMember("ts", timestamp)>>
    \o encode_trace_info(trace)
    \o (IF custom_json # NULL
        THEN <<[key |-> "", kind |-> "raw", text |-> custom_json]>> ELSE <<>>)

rtk_encode_generic_message(schema, custom_json, trace, timestamp, buffer_size) ==
    LET message == [schema |-> schema, custom_json |-> custom_json, trace |-> trace]
    IN IF schema = NULL \/ buffer_size = 0 THEN Refused("generic", message, buffer_size)
       ELSE Encoded("generic", message, buffer_size,
                    generic_members(schema, custom_json, trace, timestamp), TRUE)

\* rtk_generate_request_id.  The function takes no lock: the calls of two
\* threads interleave between the read of the clock, the read of the static
\* counter, the write of the incremented counter and the formatting.

RequestIdMinSize == 16
Threads == {1, 2}
IdleThread == [pc |-> "idle", size |-> 0, timestamp |-> 0, counter |-> 0, after |-> 0]

CodecInit ==
    /\ counter = 0
    /\ clock = 1
    /\ req_threads = [t \in Threads |-> IdleThread]
    /\ issued = <<>>
    /\ codec_last = NoEncoded

\* "req-%lld-%d"
RequestIdText(timestamp, n) == "req-" \o ToString(timestamp) \o "-" \o ToString(n)

\* gettimeofday moves on
ClockTick ==
    /\ clock' = clock + 1
    /\ UNCHANGED <<counter, req_threads, issued, codec_last>>

\* entry of rtk_generate_request_id: the size test, then rtk_get_current_timestamp
RequestIdBegin(t, buffer_size) ==
    /\ req_threads[t].pc = "idle"
    /\ IF buffer_size < RequestIdMinSize
       THEN /\ codec_last' = Refused("request_id", NullPtr, buffer_size)
            /\ UNCHANGED req_threads
       ELSE /\ req_threads' = [req_threads EXCEPT ![t] =
                  [pc |-> "stamped", size |-> buffer_size, timestamp |-> clock,
                   counter |-> 0, after |-> Len(issued)]]
            /\ UNCHANGED codec_last
    /\ UNCHANGED <<counter, clock, issued>>

\* ++counter, first half: the read of the static counter
RequestIdLoad(t) ==
    /\ req_threads[t].pc = "stamped"
    /\ req_threads' = [req_threads EXCEPT ![t].pc = "loaded", ![t].counter = counter]
    /\ UNCHANGED <<counter, clock, issued, codec_last>>

\* ++counter, second half: the write of the incremented value
RequestIdStore(t) ==
    /\ req_threads[t].pc = "loaded"
    /\ counter' = req_threads[t].counter + 1
    /\ req_threads' = [req_threads EXCEPT ![t].pc = "stored",
                                          ![t].counter = req_threads[t].counter + 1]
    /\ UNCHANGED <<clock, issued, codec_last>>

\* snprintf and return; a successful call hands its identifier to the caller
RequestIdReturn(t) ==
    /\ req_threads[t].pc = "stored"
    /\ LET me == req_threads[t]
           text == RequestIdText(me.timestamp, me.counter)
       IN issued' = IF Len(text) < me.size
                    THEN Append(issued, [id |-> text, counter |-> me.counter,
                                         after |-> me.after, thread |-> t])
                    ELSE issued
    /\ req_threads' = [req_threads EXCEPT ![t] = IdleThread]
    /\ UNCHANGED <<counter, clock, codec_last>>

MaxCalls == 3
MaxClock == 2
RequestIdSizes == {8, 32}
CallsBegun == Len(issued) + Cardinality({t \in Threads : req_threads[t].pc # "idle"})

\* ---- encoder calls ----
EncodeState(message, buffer_size) ==
    /\ codec_last' = rtk_encode_state_message(message, buffer_size)
    /\ UNCHANGED <<counter, clock, req_threads, issued>>

EncodeEvent(message, buffer_size) ==
    /\ codec_last' = rtk_encode_event_message(message, buffer_size)
    /\ UNCHANGED <<counter, clock, req_threads, issued>>

EncodeCommand(message, buffer_size) ==
    /\ codec_last' = rtk_encode_command_message(message, buffer_size)
    /\ UNCHANGED <<counter, clock, req_threads, issued>>

EncodeCommandResponse(response, buffer_size) ==
    /\ codec_last' = rtk_encode_command_response(response, buffer_size)
    /\ UNCHANGED <<counter, clock, req_threads, issued>>

\* rtk_get_current_timestamp is read inside the call
EncodeLWT(status, reason, buffer_size) ==
    /\ codec_last' = rtk_encode_lwt_message(status, reason, clock, buffer_size)
    /\ UNCHANGED <<counter, clock, req_threads, issued>>

EncodeGeneric(schema, custom_json, trace, buffer_size) ==
    /\ codec_last' = rtk_encode_generic_message(schema, custom_json, trace, clock, buffer_size)
    /\ UNCHANGED <<counter, clock, req_threads, issued>>

\* ---- inputs of the encoders ----
TraceR1 == [req_id |-> "r1", correlation_id |-> "", span_id |-> ""]
EncodeSizes == {0, 32, 512}
StateHeaders == {Header("state/1.0", 1, 0, NoTrace), Header("state/1.0", 2, 1, TraceR1)}
StateMessages ==
    {[header |-> h, health |-> "ok", fw_version |-> "1.2", uptime_seconds |-> u,
      cpu_usage |-> c, memory_usage |-> m, temperature |-> t, custom_data |-> d] :
        h \in StateHeaders, u \in {0 - 5, 0, 120},
        c \in {to_float(0 - 100), to_float(5050)},
        m \in {to_float(0 - 100), to_float(0)},
        t \in {to_float(0 - 30000), to_float(ABSOLUTE_ZERO_HUNDREDTHS), to_float(2550)},
        d \in {"", CUSTOM_SITE}}
EventMessages ==
    {[header |-> h, sequence |-> 1, severity |-> s, message |-> "link down",
      source |-> "wifi", custom_data |-> d] :
        h \in {Header("evt.wifi/1.0", 1, 0, NoTrace), Header("evt.wifi/1.0", 2, 1, NoTrace)},
        s \in {0, 2, 7}, d \in {"", CUSTOM_SITE, CUSTOM_NOT_JSON}}
CommandMessages ==
    {[header |-> h, id |-> "c1", operation |-> "reboot", args |-> a, timeout_ms |-> 5000,
      expect |-> "ack", reply_to |-> r] :
        h \in {Header("cmd.reboot/1.0", 1, 0, NoTrace), Header("cmd.reboot/1.0", 1, 1, NoTrace),
               Header("cmd.reboot/1.0", 2, 1, TraceR1)},
        a \in {"", "{\"delay\":1}"}, r \in {"", "rtk/reply"}}
CommandResponses ==
    {[header |-> Header("cmd.reboot.res/1.0", 1, 0, NoTrace), id |-> "c1", ok |-> k,
      result |-> r, progress |-> "", error_code |-> e[1], error_message |-> e[2]] :
        k \in {0, 1}, r \in {"", "{\"done\":true}"},
        e \in {<<"", "">>, <<"E_FAIL", "failed">>, <<"E_FAIL", "">>}}
LwtStatuses == {"online", "offline", NULL}
LwtReasons == {NULL, "shutdown"}
GenericSchemas == {"evt.custom/1.0", NULL}
GenericCustom == {NULL, "\"k\":1"}
GenericTraces == {NullPtr, NoTrace, TraceR1}

\* ======================================================================
\* JSON buffer pool (framework/src/json_pool.c, framework/src/posix_compat.c)
\* ======================================================================
\* A mutex made by rtk_mutex_init is a pthread mutex with default
\* attributes: its value is the thread that holds it, or Unlocked.
\* rtk_mutex_trylock is pthread_mutex_trylock behind the wrapper of
\* rtk_mutex_lock.  json_pool.c passes the address of a mutex handle to these
\* functions: a call locks or unlocks the mutex that the handle names.
\* rtk_mutex_init is taken to succeed.  The critical section
\* of a call runs in one step from the moment the pool mutex is taken.  The
\* buffer contents and, of the statistics that no decision reads, peak_usage,
\* allocation_count and last_used_time are left out.

RTK_JSON_POOL_SIZE == 8
Unlocked == 0
NoBuffer == -1
BufferIds == 0..(RTK_JSON_POOL_SIZE - 1)

\* rtk_json_init_buffer
FreshBuffer == [in_use |-> 0, mutex |-> Unlocked]

\* what pthread_mutex_lock does on a default mutex that the calling thread
\* holds: it never returns, or it returns EDEADLK, which rtk_json_free_buffer
\* does not read
RelockOutcomes == {"deadlock", "EDEADLK"}

IdleCaller == [pc |-> "idle", arg |-> NoBuffer]
NoPoolCall == [op |-> "none", thread |-> 0, buffer |-> NoBuffer, exhausted |-> FALSE]

PoolInit ==
    /\ g_pool_initialized = 0
    /\ pool_mutex = Unlocked
    /\ buffers = [b \in BufferIds |-> FreshBuffer]
    /\ current_usage = 0
    /\ total_allocations = 0
    /\ pool_threads = [t \in Threads |-> IdleCaller]
    /\ held = [b \in BufferIds |-> {}]
    /\ pool_last = NoPoolCall

\* rtk_json_find_available_buffer: the first buffer whose mutex the trylock
\* takes and that is not in use, or NoBuffer
rtk_json_find_available_buffer ==
    LET Available(b) == buffers[b].mutex = Unlocked /\ buffers[b].in_use = 0
    IN  IF \E b \in BufferIds : Available(b)
        THEN CHOOSE b \in BufferIds : Available(b) /\ \A c \in 0..(b - 1) : ~Available(c)
        ELSE NoBuffer

\* rtk_json_alloc_buffer, the test of g_pool_initialized
AllocBegin(t) ==
    /\ pool_threads[t].pc = "idle"
    /\ pool_threads' = [pool_threads EXCEPT ![t].pc =
                           IF g_pool_initialized = 1 THEN "alloc_lock" ELSE "init_check"]
    /\ UNCHANGED <<g_pool_initialized, pool_mutex, buffers, current_usage, total_allocations,
                   held, pool_last>>

\* rtk_json_pool_init, the test of g_pool_initialized
PoolInitCheck(t) ==
    /\ pool_threads[t].pc = "init_check"
    /\ pool_threads' = [pool_threads EXCEPT ![t].pc =
                           IF g_pool_initialized = 1 THEN "alloc_lock" ELSE "init_body"]
    /\ UNCHANGED <<g_pool_initialized, pool_mutex, buffers, current_usage, total_allocations,
                   held, pool_last>>

\* rtk_json_pool_init, from the creation of the pool mutex to the setting of
\* g_pool_initialized
PoolInitBody(t) ==
    /\ pool_threads[t].pc = "init_body"
    /\ pool_mutex' = Unlocked
    /\ buffers' = [b \in BufferIds |-> FreshBuffer]
    /\ current_usage' = 0
    /\ total_allocations' = 0
    /\ g_pool_initialized' = 1
    /\ pool_threads' = [pool_threads EXCEPT ![t].pc = "alloc_lock"]
    /\ UNCHANGED <<held, pool_last>>

\* rtk_json_alloc_buffer from rtk_mutex_lock(pool_mutex) to its return: the
\* mutex of the buffer handed out stays locked by the caller
AllocLocked(t) ==
    /\ pool_threads[t].pc = "alloc_lock"
    /\ pool_mutex = Unlocked
    /\ LET b == rtk_json_find_available_buffer
           exhausted == \A c \in BufferIds : buffers[c].in_use = 1
       IN  /\ IF b = NoBuffer
              THEN UNCHANGED <<buffers, current_usage, total_allocations, held>>
              ELSE /\ buffers' = [buffers EXCEPT ![b] = [in_use |-> 1, mutex |-> t]]
                   /\ total_allocations' = total_allocations + 1
                   /\ current_usage' = current_usage + 1
                   /\ held' = [held EXCEPT ![b] = @ \cup {t}]
           /\ pool_last' = [op |-> "alloc", thread |-> t, buffer |-> b,
                            exhausted |-> exhausted]
    /\ pool_threads' = [pool_threads EXCEPT ![t] = IdleCaller]
    /\ UNCHANGED <<g_pool_initialized, pool_mutex>>

\* rtk_json_free_buffer(buffers[b].buffer), the test of g_pool_initialized
FreeBegin(t, b) ==
    /\ pool_threads[t].pc = "idle"
    /\ IF g_pool_initialized = 0
       THEN /\ pool_last' = [op |-> "free", thread |-> t, buffer |-> b, exhausted |-> FALSE]
            /\ UNCHANGED pool_threads
       ELSE /\ pool_threads' = [pool_threads EXCEPT ![t] = [pc |-> "free_lock", arg |-> b]]
            /\ UNCHANGED pool_last
    /\ UNCHANGED <<g_pool_initialized, pool_mutex, buffers, current_usage, total_allocations,
                   held>>

\* the rest of rtk_json_free_buffer once the buffer's mutex is locked
release_buffer(t, b) ==
    /\ buffers' = [buffers EXCEPT ![b] = [in_use |-> 0, mutex |-> Unlocked]]
    /\ current_usage' = IF buffers[b].in_use # 0 THEN current_usage - 1 ELSE current_usage
    /\ held' = [held EXCEPT ![b] = {}]
    /\ pool_last' = [op |-> "free", thread |-> t, buffer |-> b, exhausted |-> FALSE]
    /\ pool_threads' = [pool_threads EXCEPT ![t] = IdleCaller]
    /\ UNCHANGED <<g_pool_initialized, pool_mutex, total_allocations>>

\* the caller waits in rtk_mutex_lock(buf_struct->mutex) with the pool mutex held
block_in_free(t, b) ==
    /\ pool_mutex' = t
    /\ pool_threads' = [pool_threads EXCEPT ![t].pc = "blocked"]
    /\ pool_last' = [op |-> "free_blocked", thread |-> t, buffer |-> b, exhausted |-> FALSE]
    /\ UNCHANGED <<g_pool_initialized, buffers, current_usage, total_allocations, held>>

\* rtk_json_free_buffer from rtk_mutex_lock(pool_mutex) on; relock is what
\* the lock of a mutex the caller holds does
FreeLocked(t, relock) ==
    /\ pool_threads[t].pc = "free_lock"
    /\ pool_mutex = Unlocked
    /\ LET b == pool_threads[t].arg
       IN  IF buffers[b].mutex = Unlocked THEN release_buffer(t, b)
           ELSE IF buffers[b].mutex # t THEN block_in_free(t, b)
           ELSE IF relock = "deadlock" THEN block_in_free(t, b)
           ELSE release_buffer(t, b)

\* the relock outcomes on which the free of thread t depends
FreeOutcomes(t) ==
    IF /\ pool_threads[t].pc = "free_lock"
       /\ buffers[pool_threads[t].arg].mutex = t
    THEN RelockOutcomes ELSE {"EDEADLK"}

\* the allocations the callers make
MaxAllocations == 3

\* the buffers a caller passes to rtk_json_free_buffer: those returned by
\* rtk_json_alloc_buffer and not freed since
HandedOut == {b \in BufferIds : held[b] # {}}

\* ======================================================================
\* Specifications
\* ======================================================================

\* the topic builder alone
TopicSpecInit == TopicInit /\ PluginInit /\ MqttInitState /\ SchemaInit /\ CodecInit /\ PoolInit
TopicSpecNext ==
    \/ \E c \in TopicConfigs : TopicSetConfig(c) /\ UNCHANGED <<plugin_vars, mqtt_vars, schema_vars, codec_vars, pool_vars>>
    \/ \E t \in TopicTypes, m \in Metrics, sz \in BufferSizes :
          TopicBuild(t, m, sz) /\ UNCHANGED <<plugin_vars, mqtt_vars, schema_vars, codec_vars, pool_vars>>
    \/ TopicParse /\ UNCHANGED <<plugin_vars, mqtt_vars, schema_vars, codec_vars, pool_vars>>
TopicSpec == TopicSpecInit /\ [][TopicSpecNext]_vars

\* the plugin manager alone
\* the libraries that load; the loads that fail are taken in LoaderSpec
PluginLibraries == {"a.so", "b.so"}
PluginSpecInit == PluginInit /\ TopicInit /\ MqttInitState /\ SchemaInit /\ CodecInit /\ PoolInit
PluginSpecNext ==
    \/ \E path \in PluginLibraries : rtk_plugin_load(path) /\ UNCHANGED <<topic_vars, mqtt_vars, schema_vars, codec_vars, pool_vars>>
    \/ \E n \in PluginNameArgs : rtk_plugin_unload(n) /\ UNCHANGED <<topic_vars, mqtt_vars, schema_vars, codec_vars, pool_vars>>
    \/ \E n \in PluginNameArgs, i \in InstanceNameArgs :
       \E r \in InitializeRets(n, i) :
          /\ Cardinality(LiveSlots) < MaxLive
          /\ rtk_plugin_create_instance(n, i, r)
          /\ UNCHANGED <<topic_vars, mqtt_vars, schema_vars, codec_vars, pool_vars>>
    \/ \E sl \in SlotArgs :
          \E o \in Outcomes(LAMBDA r, ub : stop_instance(sl, r, ub)) :
             rtk_plugin_destroy_instance(sl, o[1], o[2]) /\ UNCHANGED <<topic_vars, mqtt_vars, schema_vars, codec_vars, pool_vars>>
    \/ \E sl \in SlotArgs :
          \E o \in Outcomes(LAMBDA r, ub : start_instance(sl, r, ub)) :
             rtk_plugin_start_instance(sl, o[1], o[2]) /\ UNCHANGED <<topic_vars, mqtt_vars, schema_vars, codec_vars, pool_vars>>
    \/ \E sl \in SlotArgs :
          \E o \in Outcomes(LAMBDA r, ub : stop_instance(sl, r, ub)) :
             rtk_plugin_stop_instance(sl, o[1], o[2]) /\ UNCHANGED <<topic_vars, mqtt_vars, schema_vars, codec_vars, pool_vars>>
PluginSpec == PluginSpecInit /\ [][PluginSpecNext]_vars

\* loading and unloading alone, with the long-named library on disk
MaxLoaded == 3
LoaderNameArgs == PluginNameArgs \cup {LongPluginName, StrNCpy(LongPluginName, PluginNameSize)}
LoaderSpecInit == PluginInit /\ TopicInit /\ MqttInitState /\ SchemaInit /\ CodecInit /\ PoolInit
LoaderSpecNext ==
    \/ \E path \in LoaderLibraries :
          /\ plugin_count < MaxLoaded
          /\ rtk_plugin_load(path)
          /\ UNCHANGED <<topic_vars, mqtt_vars, schema_vars, codec_vars, pool_vars>>
    \/ \E n \in LoaderNameArgs : rtk_plugin_unload(n) /\ UNCHANGED <<topic_vars, mqtt_vars, schema_vars, codec_vars, pool_vars>>
LoaderSpec == LoaderSpecInit /\ [][LoaderSpecNext]_vars

\* the backend manager alone
MqttSpecInit == MqttInitState /\ TopicInit /\ PluginInit /\ SchemaInit /\ CodecInit /\ PoolInit
MqttSpecNext ==
    \/ MqttInit /\ UNCHANGED <<topic_vars, plugin_vars, schema_vars, codec_vars, pool_vars>>
    \/ \E d \in BOOLEAN : MqttCleanup(d) /\ UNCHANGED <<topic_vars, plugin_vars, schema_vars, codec_vars, pool_vars>>
    \/ \E o \in OpsArgs : MqttRegisterBackend(o) /\ UNCHANGED <<topic_vars, plugin_vars, schema_vars, codec_vars, pool_vars>>
    \/ \E o \in OpsArgs, d \in BOOLEAN :
          MqttSetBackend(o, d) /\ UNCHANGED <<topic_vars, plugin_vars, schema_vars, codec_vars, pool_vars>>
    \/ \E c \in ConfigArgs, a \in BOOLEAN :
          MqttConfigure(c, a) /\ UNCHANGED <<topic_vars, plugin_vars, schema_vars, codec_vars, pool_vars>>
    \/ \E k \in BOOLEAN : MqttConnect(k) /\ UNCHANGED <<topic_vars, plugin_vars, schema_vars, codec_vars, pool_vars>>
    \/ \E d \in BOOLEAN : MqttDisconnect(d) /\ UNCHANGED <<topic_vars, plugin_vars, schema_vars, codec_vars, pool_vars>>
    \/ MqttIsConnected /\ UNCHANGED <<topic_vars, plugin_vars, schema_vars, codec_vars, pool_vars>>
    \/ \E d \in BOOLEAN, k \in BOOLEAN :
          MqttReconnect(d, k) /\ UNCHANGED <<topic_vars, plugin_vars, schema_vars, codec_vars, pool_vars>>
    \/ \E t \in TopicArgs, k \in BOOLEAN :
          MqttPublish(t, k) /\ UNCHANGED <<topic_vars, plugin_vars, schema_vars, codec_vars, pool_vars>>
    \/ \E t \in TopicArgs, k \in BOOLEAN :
          MqttSubscribe(t, k) /\ UNCHANGED <<topic_vars, plugin_vars, schema_vars, codec_vars, pool_vars>>
    \/ \E t \in TopicArgs, k \in BOOLEAN :
          MqttUnsubscribe(t, k) /\ UNCHANGED <<topic_vars, plugin_vars, schema_vars, codec_vars, pool_vars>>
    \/ MqttLoop /\ UNCHANGED <<topic_vars, plugin_vars, schema_vars, codec_vars, pool_vars>>
    \/ MqttYield /\ UNCHANGED <<topic_vars, plugin_vars, schema_vars, codec_vars, pool_vars>>
    \/ ConnectionLost /\ UNCHANGED <<topic_vars, plugin_vars, schema_vars, codec_vars, pool_vars>>
MqttSpec == MqttSpecInit /\ [][MqttSpecNext]_vars

\* the lookup table alone: a caller registers operation tables under names
RegistryNames == {"pubsub", "custom", "alias", NULL}
RegistryOps == {"pubsub", "custom", NULL}
RegistrySpecInit == MqttInitState /\ TopicInit /\ PluginInit /\ SchemaInit /\ CodecInit /\ PoolInit
RegistrySpecNext ==
    \/ MqttInit /\ UNCHANGED <<topic_vars, plugin_vars, schema_vars, codec_vars, pool_vars>>
    \/ \E d \in BOOLEAN : MqttCleanup(d) /\ UNCHANGED <<topic_vars, plugin_vars, schema_vars, codec_vars, pool_vars>>
    \/ \E n \in RegistryNames, o \in RegistryOps :
          MqttRegisterBackendAs(n, o) /\ UNCHANGED <<topic_vars, plugin_vars, schema_vars, codec_vars, pool_vars>>
RegistrySpec == RegistrySpecInit /\ [][RegistrySpecNext]_vars

\* the manager with its callbacks: an application registers handlers a and b,
\* configures, connects and polls
CallbackArgs == {"a", "b", NULL}
CallbackSpecInit == MqttInitState /\ TopicInit /\ PluginInit /\ SchemaInit /\ CodecInit /\ PoolInit
CallbackSpecNext ==
    \/ MqttInit /\ UNCHANGED <<topic_vars, plugin_vars, schema_vars, codec_vars, pool_vars>>
    \/ \E d \in BOOLEAN : MqttCleanup(d) /\ UNCHANGED <<topic_vars, plugin_vars, schema_vars, codec_vars, pool_vars>>
    \/ \E o \in {"pubsub", "custom"}, d \in BOOLEAN :
          MqttSetBackend(o, d) /\ UNCHANGED <<topic_vars, plugin_vars, schema_vars, codec_vars, pool_vars>>
    \/ \E a \in BOOLEAN : MqttConfigure("A", a) /\ UNCHANGED <<topic_vars, plugin_vars, schema_vars, codec_vars, pool_vars>>
    \/ \E k \in BOOLEAN : MqttConnect(k) /\ UNCHANGED <<topic_vars, plugin_vars, schema_vars, codec_vars, pool_vars>>
    \/ \E d \in BOOLEAN : MqttDisconnect(d) /\ UNCHANGED <<topic_vars, plugin_vars, schema_vars, codec_vars, pool_vars>>
    \/ \E cb \in CallbackArgs :
          MqttSetMessageCallback(cb) /\ UNCHANGED <<topic_vars, plugin_vars, schema_vars, codec_vars, pool_vars>>
    \/ \E cb \in CallbackArgs :
          MqttSetConnectionCallback(cb) /\ UNCHANGED <<topic_vars, plugin_vars, schema_vars, codec_vars, pool_vars>>
    \/ MqttLoopInbound /\ UNCHANGED <<topic_vars, plugin_vars, schema_vars, codec_vars, pool_vars>>
    \/ ConnectionLost /\ UNCHANGED <<topic_vars, plugin_vars, schema_vars, codec_vars, pool_vars>>
CallbackSpec == CallbackSpecInit /\ [][CallbackSpecNext]_vars

\* the schema registry and validator alone
BuiltinSchemas == 4
SchemaSpecInit == SchemaInit /\ TopicInit /\ PluginInit /\ MqttInitState /\ CodecInit /\ PoolInit
SchemaSpecNext ==
    \/ rtk_schema_validator_init /\ UNCHANGED <<topic_vars, plugin_vars, mqtt_vars, codec_vars, pool_vars>>
    \/ rtk_schema_validator_cleanup /\ UNCHANGED <<topic_vars, plugin_vars, mqtt_vars, codec_vars, pool_vars>>
    \/ \E d \in CustomDefs :
          /\ schema_count < BuiltinSchemas + MaxCustom
          /\ rtk_schema_register_custom(d)
          /\ UNCHANGED <<topic_vars, plugin_vars, mqtt_vars, codec_vars, pool_vars>>
    \/ \E j \in JsonArgs, n \in SchemaNameArgs, r \in ResultArgs :
          SchemaValidate(j, n, r) /\ UNCHANGED <<topic_vars, plugin_vars, mqtt_vars, codec_vars, pool_vars>>
    \/ \E j \in JsonArgs, r \in ResultArgs :
          SchemaAutoValidate(j, r) /\ UNCHANGED <<topic_vars, plugin_vars, mqtt_vars, codec_vars, pool_vars>>
SchemaSpec == SchemaSpecInit /\ [][SchemaSpecNext]_vars

\* the registry filled to its capacity: an application registers definitions
\* under names that are already taken, and validates by those names
MaxShadow == 1
FillerDef == SchemaDef("custom/1.0", OTHER_STATE_SCHEMA)
ShadowDefs == {SchemaDef("custom/1.0", CUSTOM_SCHEMA),
               SchemaDef(RTK_SCHEMA_NAME_STATE_V1_0, OTHER_STATE_SCHEMA)}
ShadowCount == Cardinality({i \in 1..schema_count : registered_schemas[i] \in ShadowDefs})
ShadowSpecInit == SchemaInit /\ TopicInit /\ PluginInit /\ MqttInitState /\ CodecInit /\ PoolInit
ShadowSpecNext ==
    \/ rtk_schema_validator_init /\ UNCHANGED <<topic_vars, plugin_vars, mqtt_vars, codec_vars, pool_vars>>
    \/ rtk_schema_validator_cleanup /\ UNCHANGED <<topic_vars, plugin_vars, mqtt_vars, codec_vars, pool_vars>>
    \/ rtk_schema_register_custom(FillerDef) /\ UNCHANGED <<topic_vars, plugin_vars, mqtt_vars, codec_vars, pool_vars>>
    \/ \E d \in ShadowDefs :
          /\ ShadowCount < MaxShadow
          /\ rtk_schema_register_custom(d)
          /\ UNCHANGED <<topic_vars, plugin_vars, mqtt_vars, codec_vars, pool_vars>>
    \/ \E n \in {RTK_SCHEMA_NAME_STATE_V1_0, "custom/1.0"} :
          SchemaValidate(DocVOnly, n, "fresh") /\ UNCHANGED <<topic_vars, plugin_vars, mqtt_vars, codec_vars, pool_vars>>
ShadowSpec == ShadowSpecInit /\ [][ShadowSpecNext]_vars

\* the topic builder configured with groups, and its subscribe patterns
PatternSpecInit == TopicInit /\ PluginInit /\ MqttInitState /\ SchemaInit /\ CodecInit /\ PoolInit
PatternSpecNext ==
    \/ \E c \in GroupedTopicConfigs :
          TopicSetConfigChecked(c) /\ UNCHANGED <<plugin_vars, mqtt_vars, schema_vars, codec_vars, pool_vars>>
    \/ \E p \in PatternArgs, sz \in BufferSizes :
          TopicBuildSubscribePattern(p, sz) /\ UNCHANGED <<plugin_vars, mqtt_vars, schema_vars, codec_vars, pool_vars>>
PatternSpec == PatternSpecInit /\ [][PatternSpecNext]_vars

\* the encoders of the message codec
CodecSpecInit == CodecInit /\ TopicInit /\ PluginInit /\ MqttInitState /\ SchemaInit /\ PoolInit
CodecSpecNext ==
    \/ \E m \in StateMessages \cup {NullPtr}, sz \in EncodeSizes :
          EncodeState(m, sz) /\ UNCHANGED <<topic_vars, plugin_vars, mqtt_vars, schema_vars, pool_vars>>
    \/ \E m \in EventMessages \cup {NullPtr}, sz \in EncodeSizes :
          EncodeEvent(m, sz) /\ UNCHANGED <<topic_vars, plugin_vars, mqtt_vars, schema_vars, pool_vars>>
    \/ \E m \in CommandMessages \cup {NullPtr}, sz \in EncodeSizes :
          EncodeCommand(m, sz) /\ UNCHANGED <<topic_vars, plugin_vars, mqtt_vars, schema_vars, pool_vars>>
    \/ \E r \in CommandResponses \cup {NullPtr}, sz \in EncodeSizes :
          EncodeCommandResponse(r, sz)
          /\ UNCHANGED <<topic_vars, plugin_vars, mqtt_vars, schema_vars, pool_vars>>
    \/ \E s \in LwtStatuses, r \in LwtReasons, sz \in EncodeSizes :
          EncodeLWT(s, r, sz) /\ UNCHANGED <<topic_vars, plugin_vars, mqtt_vars, schema_vars, pool_vars>>
    \/ \E s \in GenericSchemas, c \in GenericCustom, t \in GenericTraces, sz \in EncodeSizes :
          EncodeGeneric(s, c, t, sz)
          /\ UNCHANGED <<topic_vars, plugin_vars, mqtt_vars, schema_vars, pool_vars>>
    \/ /\ clock < MaxClock
       /\ ClockTick
       /\ UNCHANGED <<topic_vars, plugin_vars, mqtt_vars, schema_vars, pool_vars>>
CodecSpec == CodecSpecInit /\ [][CodecSpecNext]_vars

\* rtk_generate_request_id called from two threads
RequestIdSpecInit == CodecInit /\ TopicInit /\ PluginInit /\ MqttInitState /\ SchemaInit /\ PoolInit
RequestIdSpecNext ==
    \/ \E t \in Threads, sz \in RequestIdSizes :
          /\ CallsBegun < MaxCalls
          /\ RequestIdBegin(t, sz)
          /\ UNCHANGED <<topic_vars, plugin_vars, mqtt_vars, schema_vars, pool_vars>>
    \/ \E t \in Threads :
          RequestIdLoad(t) /\ UNCHANGED <<topic_vars, plugin_vars, mqtt_vars, schema_vars, pool_vars>>
    \/ \E t \in Threads :
          RequestIdStore(t) /\ UNCHANGED <<topic_vars, plugin_vars, mqtt_vars, schema_vars, pool_vars>>
    \/ \E t \in Threads :
          RequestIdReturn(t) /\ UNCHANGED <<topic_vars, plugin_vars, mqtt_vars, schema_vars, pool_vars>>
    \/ /\ clock < MaxClock
       /\ ClockTick
       /\ UNCHANGED <<topic_vars, plugin_vars, mqtt_vars, schema_vars, pool_vars>>
RequestIdSpec == RequestIdSpecInit /\ [][RequestIdSpecNext]_vars

\* the builders of publish topics: Build of every type and BuildGroupCmd
PublishTopicSpecInit == TopicInit /\ PluginInit /\ MqttInitState /\ SchemaInit /\ CodecInit /\ PoolInit
PublishTopicSpecNext ==
    \/ \E c \in PublishConfigs : TopicSetConfig(c) /\ UNCHANGED <<plugin_vars, mqtt_vars, schema_vars, codec_vars, pool_vars>>
    \/ \E t \in TopicTypes, m \in PublishMetrics, sz \in PublishSizes :
          TopicBuild(t, m, sz) /\ UNCHANGED <<plugin_vars, mqtt_vars, schema_vars, codec_vars, pool_vars>>
    \/ \E g \in PublishGroupIds, sz \in PublishSizes :
          TopicBuildGroupCmd(g, sz) /\ UNCHANGED <<plugin_vars, mqtt_vars, schema_vars, codec_vars, pool_vars>>
PublishTopicSpec == PublishTopicSpecInit /\ [][PublishTopicSpecNext]_vars

\* the instance table up to its capacity: one library, instances created
\* until no slot is free, and destroyed at both ends of the table
CapacityNames == {<<"i">>, LongA}
CapacitySlots == {0, 1, MAX_INSTANCES - 1}
InstanceSpecInit == PluginInit /\ TopicInit /\ MqttInitState /\ SchemaInit /\ CodecInit /\ PoolInit
InstanceSpecNext ==
    \/ rtk_plugin_load("a.so") /\ UNCHANGED <<topic_vars, mqtt_vars, schema_vars, codec_vars, pool_vars>>
    \/ rtk_plugin_unload(<<"p">>) /\ UNCHANGED <<topic_vars, mqtt_vars, schema_vars, codec_vars, pool_vars>>
    \/ \E i \in CapacityNames :
       \E r \in InitializeRets(<<"p">>, i) :
          /\ rtk_plugin_create_instance(<<"p">>, i, r)
          /\ UNCHANGED <<topic_vars, mqtt_vars, schema_vars, codec_vars, pool_vars>>
    \/ \E sl \in CapacitySlots :
          \E o \in Outcomes(LAMBDA r, ub : stop_instance(sl, r, ub)) :
             rtk_plugin_destroy_instance(sl, o[1], o[2]) /\ UNCHANGED <<topic_vars, mqtt_vars, schema_vars, codec_vars, pool_vars>>
InstanceSpec == InstanceSpecInit /\ [][InstanceSpecNext]_vars

\* the buffer pool alone, with two threads that allocate and free
PoolSpecInit == PoolInit /\ TopicInit /\ PluginInit /\ MqttInitState /\ SchemaInit /\ CodecInit
PoolSpecNext ==
    \/ \E t \in Threads :
          /\ total_allocations < MaxAllocations
          /\ AllocBegin(t)
          /\ UNCHANGED <<topic_vars, plugin_vars, mqtt_vars, schema_vars, codec_vars>>
    \/ \E t \in Threads : PoolInitCheck(t) /\ UNCHANGED <<topic_vars, plugin_vars, mqtt_vars, schema_vars, codec_vars>>
    \/ \E t \in Threads : PoolInitBody(t) /\ UNCHANGED <<topic_vars, plugin_vars, mqtt_vars, schema_vars, codec_vars>>
    \/ \E t \in Threads : AllocLocked(t) /\ UNCHANGED <<topic_vars, plugin_vars, mqtt_vars, schema_vars, codec_vars>>
    \/ \E t \in Threads, b \in HandedOut :
          FreeBegin(t, b) /\ UNCHANGED <<topic_vars, plugin_vars, mqtt_vars, schema_vars, codec_vars>>
    \/ \E t \in Threads : \E o \in FreeOutcomes(t) :
          FreeLocked(t, o) /\ UNCHANGED <<topic_vars, plugin_vars, mqtt_vars, schema_vars, codec_vars>>
PoolSpec == PoolSpecInit /\ [][PoolSpecNext]_vars

\* the buffer pool with a scheduler that lets every thread that is inside a
\* call and can take a step take it, however often the mutex it waits for
\* is taken by others
PoolStep(t) ==
    /\ \/ PoolInitCheck(t)
       \/ PoolInitBody(t)
       \/ AllocLocked(t)
       \/ \E o \in FreeOutcomes(t) : FreeLocked(t, o)
    /\ UNCHANGED <<topic_vars, plugin_vars, mqtt_vars, schema_vars, codec_vars>>
PoolFairSpec == PoolSpecInit /\ [][PoolSpecNext]_vars /\ \A t \in Threads : SF_vars(PoolStep(t))

\* ======================================================================
\* Claims
\* ======================================================================

NeedsMetric(type) == type \in {"RTK_TOPIC_TELEMETRY", "RTK_TOPIC_EVENT"}

\* C1: for every valid TopicConfig and every topic type (with its metric or
\* event where one is required), parsing the topic returned by a successful
\* Build succeeds and returns the same tenant, site, device_id, type and
\* metric/event.
C1_RoundTrip ==
    (parsed.topic # NullStr /\ parsed.topic = built.buffer /\ built.ret >= 0) =>
        /\ parsed.ret = 0
        /\ parsed.config.tenant = built.cfg.tenant
        /\ parsed.config.site = built.cfg.site
        /\ parsed.config.device_id = built.cfg.device_id
        /\ parsed.type = built.type
        /\ NeedsMetric(built.type) => parsed.metric = built.metric

\* ---- plugin manager claims ----

IsLive(insts, i) == insts[i].plugin_info # NoSlot

\* some live instance created from plugin P is running
RunningFrom(P) ==
    \E i \in 0..(MAX_INSTANCES - 1) :
        /\ IsLive(plugin_instances, i)
        /\ inst_origin[i] = P
        /\ plugin_instances[i].is_running = 1

\* C2: whenever an instance created from plugin P is running, Unload(P) is
\* refused: it returns an error, the plugin table is unchanged and no
\* library is closed.
C2_UnloadRefusedWhileRunning ==
    [][\A P \in PluginNameArgs :
          (pm_last'.op = "unload" /\ pm_last'.a = P /\ RunningFrom(P)) =>
              /\ pm_last'.ret # RTK_PLUGIN_SUCCESS
              /\ loaded_plugins' = loaded_plugins
              /\ dl_open' = dl_open]_vars

UniqueInstanceNames(insts) ==
    \A i, j \in 0..(MAX_INSTANCES - 1) :
        (i # j /\ IsLive(insts, i) /\ IsLive(insts, j)) => insts[i].name # insts[j].name

NameHeld(n) ==
    \E i \in 0..(MAX_INSTANCES - 1) :
        IsLive(plugin_instances, i) /\ plugin_instances[i].name = n

\* C3: no two live instances have the same name, and CreateInstance with a
\* name held by a live instance fails and creates nothing.
C3_InstanceNamesUnique ==
    [][/\ UniqueInstanceNames(plugin_instances')
       /\ (pm_last'.op = "create" /\ NameHeld(pm_last'.b)) =>
              (pm_last'.ret = NoSlot /\ plugin_instances' = plugin_instances)]_vars

InitializeFailed(l) ==
    /\ l.op = "create"
    /\ Len(l.calls) = 1
    /\ l.calls[1].fn = "initialize"
    /\ l.calls[1].ret # RTK_PLUGIN_SUCCESS

\* C8: when the plugin's initialize fails during CreateInstance, the call
\* fails and the instance table and instance count are exactly as before,
\* so the chosen slot is free and the name is not held.
C8_InitFailureRollsBack ==
    [][InitializeFailed(pm_last') =>
          /\ pm_last'.ret = NoSlot
          /\ plugin_instances' = plugin_instances
          /\ instance_count' = instance_count
          /\ inst_origin' = inst_origin]_vars

\* a failed initialize happened while another instance is live, and the
\* name that was refused is not held by any live instance
C8_Witness ==
    /\ InitializeFailed(pm_last)
    /\ LiveSlots # {}
    /\ ~NameHeld(StrNCpy(pm_last.b, InstanceNameSize))

StartStopStep(l, insts) ==
    /\ l.op \in {"start", "stop"}
    /\ IsLive(insts, l.a)

\* C9 as stated: in the target state no plugin call and success; otherwise
\* the plugin's start/stop is called exactly once and is_running changes iff
\* that call returned success.
C9_StartStopAsStated ==
    [][StartStopStep(pm_last', plugin_instances) =>
          LET s == pm_last'.a
              target == IF pm_last'.op = "start" THEN 1 ELSE 0
              calls == pm_last'.calls
          IN  IF plugin_instances[s].is_running = target
              THEN /\ pm_last'.ret = RTK_PLUGIN_SUCCESS
                   /\ calls = NoCalls
                   /\ plugin_instances' = plugin_instances
              ELSE /\ Len(calls) = 1
                   /\ calls[1].fn = pm_last'.op
                   /\ (plugin_instances'[s].is_running # plugin_instances[s].is_running)
                          <=> (calls[1].ret = RTK_PLUGIN_SUCCESS)]_vars

\* C9 amended: in the target state no plugin call and success.  Otherwise:
\* if the vtable the instance references provides start/stop it is called
\* exactly once and is_running changes iff that call returned success; if
\* the vtable provides none, nothing is called, the call succeeds and
\* is_running changes; if the referenced plugin slot was vacated by Unload
\* (null vtable) nothing is called and the call either kills the process or
\* succeeds with is_running changed.
C9_StartStopAmended ==
    [][StartStopStep(pm_last', plugin_instances) =>
          LET s == pm_last'.a
              target == IF pm_last'.op = "start" THEN 1 ELSE 0
              calls == pm_last'.calls
              vt == loaded_plugins[plugin_instances[s].plugin_info].vtable
              before == plugin_instances[s].is_running
              after == plugin_instances'[s].is_running
          IN  IF before = target
              THEN /\ pm_last'.ret = RTK_PLUGIN_SUCCESS
                   /\ calls = NoCalls
                   /\ plugin_instances' = plugin_instances
              ELSE IF vt = NULL
              THEN /\ calls = NoCalls
                   /\ \/ crashed' /\ after = before
                      \/ ~crashed' /\ after = target /\ pm_last'.ret = RTK_PLUGIN_SUCCESS
              ELSE IF LibVtable(vt)[pm_last'.op]
              THEN /\ Len(calls) = 1
                   /\ calls[1].fn = pm_last'.op
                   /\ calls[1].lib = vt
                   /\ pm_last'.ret = calls[1].ret
                   /\ (after # before) <=> (calls[1].ret = RTK_PLUGIN_SUCCESS)
                   /\ ~crashed'
              ELSE /\ calls = NoCalls
                   /\ pm_last'.ret = RTK_PLUGIN_SUCCESS
                   /\ after = target
                   /\ ~crashed']_vars

\* a start whose plugin call failed left the instance stopped
C9_Witness ==
    /\ pm_last.op = "start"
    /\ Len(pm_last.calls) = 1
    /\ pm_last.calls[1].ret # RTK_PLUGIN_SUCCESS
    /\ IsLive(plugin_instances, pm_last.a)
    /\ plugin_instances[pm_last.a].is_running = 0

\* C11: a load of a library whose plugin name is the name of a plugin already
\* loaded returns RTK_PLUGIN_ERROR_ALREADY_LOADED, leaves the table and the
\* open libraries as they were, and the names in the table stay pairwise
\* distinct
LoadedNames == {LibName(loaded_plugins[i].handle) : i \in 0..(plugin_count - 1)}
C11_DuplicateLoadRefused ==
    [][pm_last'.op = "load" /\ LibExists(pm_last'.a) /\ LibName(pm_last'.a) \in LoadedNames
          => /\ pm_last'.ret = RTK_PLUGIN_ERROR_ALREADY_LOADED
             /\ loaded_plugins' = loaded_plugins
             /\ plugin_count' = plugin_count
             /\ dl_open' = dl_open
             /\ \A i, j \in 0..(plugin_count' - 1) :
                   i # j => loaded_plugins'[i].name # loaded_plugins'[j].name]_vars

\* C10: DestroyInstance never clears the slot of an instance that is still
\* flagged running: a running instance is stopped first.
C10_DestroyStopsFirst ==
    [][(/\ pm_last'.op = "destroy"
        /\ IsLive(plugin_instances, pm_last'.a)
        /\ ~IsLive(plugin_instances', pm_last'.a)) =>
            pm_last'.b = 0]_vars

\* ---- backend manager claims ----

\* the manager is in the Connected state: what IsConnected reports, given
\* the manager m, the adapter p, the wrapper g, the session l and the custom
\* backend's flag c
ConnectedIn(m, p, g, l, c) ==
    /\ m.is_initialized = 1
    /\ m.current_backend # NULL
    /\ IF m.current_backend = "pubsub"
       THEN p.is_initialized = 1 /\ g.initialized /\ l
       ELSE c = 1

Connected == ConnectedIn(mqtt_manager, pubsub_state, g_wrapper, link, custom_connected)

ConnectedNext ==
    ConnectedIn(mqtt_manager', pubsub_state', g_wrapper', link', custom_connected')

\* the backend operations named in fns that the last call made
CallsOf(fns) == SelectSeq(mq_last.trace, LAMBDA e : e.fn \in fns)

CallsOfNext(fns) == SelectSeq(mq_last'.trace, LAMBDA e : e.fn \in fns)

\* C4: on an initialized manager and with a non-NULL topic, Publish,
\* Subscribe and Unsubscribe called while the manager is not Connected return
\* NOT_CONNECTED and call none of the backend's publish, subscribe and
\* unsubscribe.
C4_NotConnectedRefused ==
    [][(/\ mq_last'.op \in {"publish", "subscribe", "unsubscribe"}
        /\ mq_last'.arg # NULL
        /\ mqtt_manager.is_initialized = 1
        /\ ~Connected) =>
            /\ mq_last'.ret = RTK_MQTT_ERROR_NOT_CONNECTED
            /\ CallsOfNext({"publish", "subscribe", "unsubscribe"}) = <<>>]_vars

\* a Publish was refused on a configured manager whose session had been lost
\* while the adapter still believed it was connected
C4_Witness ==
    /\ mq_last.op = "publish"
    /\ mq_last.ret = RTK_MQTT_ERROR_NOT_CONNECTED
    /\ mqtt_manager.is_configured = 1
    /\ CallsOf({"is_connected"}) # <<>>
    /\ CallsOf({"publish"}) = <<>>

UnconfiguredConnect ==
    /\ mq_last'.op = "connect"
    /\ mqtt_manager.is_initialized = 1
    /\ mqtt_manager.is_configured = 0

BackendConnectedNext(b) == IF b = "pubsub" THEN link' ELSE custom_connected' = 1

\* C6: a successful SetBackend(new) issued while the old backend is connected
\* calls the old backend's disconnect, then its cleanup (when it has one),
\* and only then makes new the current backend; afterwards the old backend
\* is no longer connected and the manager is not configured.
C6_SetBackendDisconnectsOld ==
    [][(/\ mq_last'.op = "set_backend"
        /\ mq_last'.ret = RTK_MQTT_SUCCESS
        /\ Connected) =>
            LET old == mqtt_manager.current_backend
                new == mq_last'.arg
                D == [backend |-> old, fn |-> "disconnect"]
                K == [backend |-> old, fn |-> "cleanup"]
                S == [backend |-> new, fn |-> "current_backend"]
            IN  /\ CallsOfNext({"disconnect", "cleanup", "current_backend"}) =
                       IF "cleanup" \in BackendOps(old) THEN <<D, K, S>> ELSE <<D, S>>
                /\ mqtt_manager'.current_backend = new
                /\ mqtt_manager'.is_configured = 0
                /\ ~BackendConnectedNext(old)]_vars

LossReporting == {"loop", "yield", "publish", "subscribe", "unsubscribe", "configure",
                  "is_connected"}

StaleConnection(b) == b = "custom" /\ custom_connected = 1

BackendNamesUnique(backends) ==
    \A i, j \in 1..Len(backends) : i # j => backends[i] # backends[j]
C12_RegisterRefusesDuplicates ==
    [][mq_last'.op = "register_backend" /\ mqtt_manager.is_initialized = 1
          => /\ (\E i \in 1..Len(mqtt_manager.backends) :
                    mqtt_manager.backends[i] = mq_last'.arg)
                => /\ mq_last'.ret # RTK_MQTT_SUCCESS
                   /\ mqtt_manager'.backends = mqtt_manager.backends
             /\ Len(mqtt_manager.backends) >= MAX_BACKENDS
                => /\ mq_last'.ret = RTK_MQTT_ERROR_MEMORY
                   /\ mqtt_manager'.backends = mqtt_manager.backends
             /\ BackendNamesUnique(mqtt_manager'.backends)]_vars

\* the configurations C13 is about: empty host, port outside [1,65535], empty
\* client id
InvalidConfigArgs == {"nohost", "port0", "port65536", "noid"}

\* C13 as stated: Configure with such a configuration returns
\* RTK_MQTT_ERROR_INVALID_PARAM in every state, calls no init and does not
\* change is_configured
C13_InvalidConfigAsStated ==
    [][mq_last'.op = "configure" /\ mq_last'.arg \in InvalidConfigArgs
          => /\ mq_last'.ret = RTK_MQTT_ERROR_INVALID_PARAM
             /\ CallsOfNext({"init"}) = <<>>
             /\ mqtt_manager'.is_configured = mqtt_manager.is_configured]_vars

\* C13: on an initialized manager with an active backend, Configure with an
\* empty host, a port outside [1,65535] or an empty client id returns
\* RTK_MQTT_ERROR_INVALID_PARAM; without an active backend it returns
\* RTK_MQTT_ERROR_BACKEND_NOT_FOUND; in both cases the backend's init is not
\* called and neither is_configured nor the stored configuration changes
C13_InvalidConfigRefused ==
    [][mq_last'.op = "configure" /\ mq_last'.arg \in InvalidConfigArgs
          => /\ mq_last'.ret = IF no_backend(World) THEN RTK_MQTT_ERROR_BACKEND_NOT_FOUND
                               ELSE RTK_MQTT_ERROR_INVALID_PARAM
             /\ CallsOfNext({"init"}) = <<>>
             /\ mqtt_manager'.is_configured = mqtt_manager.is_configured
             /\ mqtt_manager'.current_config = mqtt_manager.current_config
             /\ pubsub_state' = pubsub_state
             /\ g_wrapper' = g_wrapper]_vars

\* a configured manager has refused port 65536 and is still configured with
\* the earlier configuration
C13_Witness ==
    /\ mq_last.op = "configure"
    /\ mq_last.arg = "port65536"
    /\ mq_last.ret = RTK_MQTT_ERROR_INVALID_PARAM
    /\ mqtt_manager.is_configured = 1
    /\ mqtt_manager.current_config = Config("A")

\* C14 as stated: Disconnect called while the manager is not connected returns
\* success without calling the backend's disconnect, and the second of two
\* consecutive Disconnect calls follows a successful first one, returns
\* success and leaves the manager disconnected
C14_DisconnectAsStated ==
    [][mq_last'.op = "disconnect"
          => /\ ~Connected => /\ mq_last'.ret = RTK_MQTT_SUCCESS
                              /\ CallsOfNext({"disconnect"}) = <<>>
             /\ mq_last.op = "disconnect" => /\ mq_last.ret = RTK_MQTT_SUCCESS
                                             /\ mq_last'.ret = RTK_MQTT_SUCCESS
                                             /\ ~ConnectedNext]_vars

\* C14: with an active backend, Disconnect called while the manager is not
\* connected returns success without calling the backend's disconnect and
\* leaves the manager disconnected; a Disconnect that returns success leaves
\* the manager disconnected, so a Disconnect that directly follows a
\* successful one returns success too; without an active backend Disconnect
\* returns RTK_MQTT_ERROR_BACKEND_NOT_FOUND and calls nothing
C14_DisconnectIdempotent ==
    [][mq_last'.op = "disconnect"
          => /\ no_backend(World) => /\ mq_last'.ret = RTK_MQTT_ERROR_BACKEND_NOT_FOUND
                                     /\ mq_last'.trace = <<>>
             /\ ~no_backend(World) /\ ~Connected
                   => /\ mq_last'.ret = RTK_MQTT_SUCCESS
                      /\ CallsOfNext({"disconnect"}) = <<>>
                      /\ ~ConnectedNext
             /\ mq_last'.ret = RTK_MQTT_SUCCESS => ~ConnectedNext
             /\ (/\ mq_last.op = "disconnect"
                 /\ mq_last.ret = RTK_MQTT_SUCCESS) => /\ mq_last'.ret = RTK_MQTT_SUCCESS
                                                       /\ CallsOfNext({"disconnect"}) = <<>>]_vars

\* a configured manager that was not connected answered Disconnect with
\* success after asking the backend only whether it is connected
C14_Witness ==
    /\ mq_last.op = "disconnect"
    /\ mq_last.ret = RTK_MQTT_SUCCESS
    /\ mqtt_manager.is_configured = 1
    /\ CallsOf({"is_connected"}) # <<>>
    /\ CallsOf({"disconnect"}) = <<>>

\* C15: with an active backend, Reconnect calls the backend's own reconnect,
\* once and nothing else, when the backend provides one and returns what it
\* returned; otherwise it calls no reconnect and its state, calls and result
\* are those of Disconnect followed by Connect
C15_ReconnectDelegatesOrComposes ==
    [][mq_last'.op = "reconnect" /\ ~no_backend(World)
          => IF "reconnect" \in BackendOps(mqtt_manager.current_backend)
             THEN /\ Len(mq_last'.trace) = 1
                  /\ mq_last'.trace[1] =
                        [backend |-> mqtt_manager.current_backend, fn |-> "reconnect"]
                  /\ \E k \in BOOLEAN :
                        mq_last'.ret = rtk_pubsub_reconnect(World, k).ret
                  /\ mqtt_manager'.last_error = mqtt_manager.last_error
             ELSE /\ CallsOfNext({"reconnect"}) = <<>>
                  /\ \E d, k \in BOOLEAN :
                        LET dis == rtk_mqtt_disconnect(World, d)
                            con == rtk_mqtt_connect(dis.w, k)
                        IN  /\ mq_last'.ret = con.ret
                            /\ mq_last'.trace = con.w.trace
                            /\ mqtt_manager' = con.w.m
                            /\ custom_connected' = con.w.cust]_vars

\* a connected custom backend, which has no reconnect of its own, was
\* disconnected and connected again by Reconnect
C15_Witness ==
    /\ mq_last.op = "reconnect"
    /\ mq_last.ret = RTK_MQTT_SUCCESS
    /\ mqtt_manager.current_backend = "custom"
    /\ CallsOf({"disconnect", "connect"}) =
          <<[backend |-> "custom", fn |-> "disconnect"],
            [backend |-> "custom", fn |-> "connect"]>>

\* C16: the message callback registered last is invoked exactly once, and no
\* other, for a message that Loop reads on a manager connected through the
\* PubSubClient backend, and the
\* connection callback registered last is invoked exactly once, and no other,
\* when the manager connects or its connection ends
C16_LastCallbackInvokedOnce ==
    [][/\ (/\ mq_last'.op = "loop"
           /\ mq_last'.arg = "inbound"
           /\ mq_last'.ret = RTK_MQTT_SUCCESS
           /\ mqtt_manager.current_backend = "pubsub"
           /\ Connected
           /\ mqtt_manager.global_message_callback # NULL)
          => mq_last'.invoked = <<mqtt_manager.global_message_callback>>
       /\ (/\ Connected # ConnectedNext
           /\ mqtt_manager.global_connection_callback # NULL)
          => mq_last'.invoked = <<mqtt_manager.global_connection_callback>>]_vars

\* ----------------------------------------------------------------------
\* Schema validator claims
\* ----------------------------------------------------------------------
\* the last call was Validate with three non-null arguments on an initialized validator
ValidateRan ==
    /\ sv_last.op = "validate"
    /\ schema_is_initialized = 1
    /\ sv_last.json # NULL /\ sv_last.schema_name # NULL /\ sv_last.result_arg # NULL
WellFormed(json) == cJSON_Parse(json) # NoItem
RegisteredNames == {registered_schemas[i].name : i \in 1..schema_count}

\* C17: Validate checks the JSON before the schema name: malformed JSON gives
\* InvalidJSON whatever the schema name, registered or not, and NotFound is
\* returned only for well-formed JSON whose schema name is not registered.
C17_InvalidJsonBeforeLookup ==
    ValidateRan =>
       /\ ~WellFormed(sv_last.json) => sv_last.ret = RTK_SCHEMA_ERROR_INVALID_JSON
       /\ sv_last.ret = RTK_SCHEMA_ERROR_NOT_FOUND =>
             /\ WellFormed(sv_last.json)
             /\ sv_last.schema_name \notin RegisteredNames

\* the definition that was registered first under the name given to the last call
LookedUp == registered_schemas[MinOf({i \in 1..schema_count :
                                        registered_schemas[i].name = sv_last.schema_name})]
\* the top-level "required" list of its schema text, in declared order
DeclaredRequired ==
    LET required == cJSON_GetObjectItemCaseSensitive(cJSON_Parse(LookedUp.json_schema), "required")
    IN [i \in 1..Len(required.child) |-> required.child[i].valuestring]
\* the top-level member names of a well-formed JSON text
MemberNames(json) == {cJSON_Parse(json).child[i].string : i \in 1..Len(cJSON_Parse(json).child)}
MissingRequired == {i \in 1..Len(DeclaredRequired) :
                       DeclaredRequired[i] \notin MemberNames(sv_last.json)}
ValidateRanOnRegistered ==
    /\ ValidateRan
    /\ WellFormed(sv_last.json)
    /\ sv_last.schema_name \in RegisteredNames

\* C18: Validate of well-formed JSON that lacks one or more of the schema's
\* required fields returns is_valid = false with error_path "/<field>", <field>
\* being the first missing field in the declared order of the required list.
C18_FirstMissingRequiredFlagged ==
    (ValidateRanOnRegistered /\ MissingRequired # {}) =>
       /\ sv_last.result.is_valid = 0
       /\ sv_last.result.error_path = "/" \o DeclaredRequired[MinOf(MissingRequired)]

\* {"ts":1,"health":"ok"} against state/1.0 was flagged at /schema
C18_Witness ==
    /\ ValidateRanOnRegistered
    /\ sv_last.json = DocStateNoSchema
    /\ sv_last.schema_name = RTK_SCHEMA_NAME_STATE_V1_0
    /\ MissingRequired # {}
    /\ sv_last.result.is_valid = 0
    /\ sv_last.result.error_path = "/schema"

\* the top-level properties that the looked-up schema declares with a constant
DeclaredConsts ==
    LET properties == cJSON_GetObjectItemCaseSensitive(cJSON_Parse(LookedUp.json_schema),
                                                       "properties")
    IN {properties.child[i] : i \in {k \in 1..Len(properties.child) :
          cJSON_GetObjectItemCaseSensitive(properties.child[k], "const") # NoItem}}
\* the JSON text has the field and its value is not the declared constant
CarriesOtherValue(json, prop) ==
    LET member == cJSON_GetObjectItemCaseSensitive(cJSON_Parse(json), prop.string)
    IN /\ member # NoItem
       /\ \/ ~cJSON_IsString(member)
          \/ member.valuestring # cJSON_GetObjectItemCaseSensitive(prop, "const").valuestring

\* C19: for every top-level field that the schema declares with a constant value
\* (schema, and op in cmd.diagnosis.get/1.0), Validate returns is_valid = false
\* when the JSON carries a different value for that field.
C19_EveryConstEnforced ==
    (/\ ValidateRanOnRegistered
     /\ \E prop \in DeclaredConsts : CarriesOtherValue(sv_last.json, prop))
       => sv_last.result.is_valid = 0

\* the last call was AutoValidate with two non-null arguments on an initialized
\* validator, and the JSON text was well-formed
AutoValidateRan ==
    /\ sv_last.op = "auto_validate"
    /\ schema_is_initialized = 1
    /\ sv_last.json # NULL /\ sv_last.result_arg # NULL
    /\ WellFormed(sv_last.json)
\* the top-level schema member of a JSON text, the null pointer when it has none
SchemaField(json) == cJSON_GetObjectItemCaseSensitive(cJSON_Parse(json), "schema")

\* C20: AutoValidate on JSON that has no schema field, or whose schema field is
\* not a string, fails with NotFound; otherwise its status and its result are
\* those of Validate(json, value of the schema field).
C20_AutoValidateDelegates ==
    AutoValidateRan =>
       IF SchemaField(sv_last.json) = NoItem \/ ~cJSON_IsString(SchemaField(sv_last.json))
       THEN sv_last.ret = RTK_SCHEMA_ERROR_NOT_FOUND
       ELSE LET direct == rtk_schema_validate_json(sv_last.json,
                                                   SchemaField(sv_last.json).valuestring,
                                                   sv_last.result_arg)
            IN sv_last.ret = direct.ret /\ sv_last.result = direct.result

\* the schema text of the definition that a lookup by name finds
LookupText(name) == registered_schemas[rtk_schema_find_by_name(name)].json_schema
\* two definitions with different schema texts are registered under one name
Shadowed(name) ==
    \E i, j \in 1..schema_count :
       /\ i < j
       /\ registered_schemas[i].name = name /\ registered_schemas[j].name = name
       /\ registered_schemas[i].json_schema # registered_schemas[j].json_schema

\* the names an application registers definitions under
CustomNames == {d.name : d \in CustomDefs \cup ShadowDefs \cup {FillerDef}}

\* C21: registering a schema under a name that is already in the registry
\* succeeds unless the table of MAX_SCHEMAS entries is full, and every later
\* lookup or validation by that name uses the definition registered first.
\* Stepwise: a registration never changes what a lookup by a registered name
\* finds, the first registration under a name is what a lookup finds, and a
\* validation by name is the validation against the text the lookup finds.
C21_FirstRegisteredWins ==
    [][/\ (sv_last'.op = "register" /\ schema_is_initialized = 1) =>
             /\ sv_last'.schema_name \in RegisteredNames =>
                   sv_last'.ret = IF schema_count < MAX_SCHEMAS
                                  THEN RTK_SCHEMA_SUCCESS ELSE RTK_SCHEMA_ERROR_MEMORY
             /\ \A n \in RegisteredNames : LookupText(n)' = LookupText(n)
             /\ \A n \in CustomNames \ RegisteredNames :
                   (sv_last'.schema_name = n /\ sv_last'.ret = RTK_SCHEMA_SUCCESS) =>
                      LookupText(n)' = sv_last'.json
       /\ (/\ sv_last'.op = "validate" /\ schema_is_initialized = 1
           /\ sv_last'.schema_name \in RegisteredNames) =>
             LET direct == validate_json_against_schema(sv_last'.json,
                              LookupText(sv_last'.schema_name), sv_last'.result_arg)
             IN sv_last'.ret = direct.ret /\ sv_last'.result = direct.result]_vars

\* the table is full, custom/1.0 is registered with two different texts, and
\* one more registration under that name was refused
C21_Witness ==
    /\ schema_count = MAX_SCHEMAS
    /\ Shadowed("custom/1.0")
    /\ sv_last.op = "register" /\ sv_last.schema_name = "custom/1.0"
    /\ sv_last.ret = RTK_SCHEMA_ERROR_MEMORY

\* ----------------------------------------------------------------------
\* Topic builder claims: subscribe patterns, failures of Build, SetConfig
\* ----------------------------------------------------------------------
\* rtk/v1/+/+/+/evt/#
GlobalMonitorText == <<"r", "t", "k", "/", "v", "1", "/", "+", "/", "+", "/", "+", "/",
                       "e", "v", "t", "/", "#">>

\* C22: BuildSubscribePattern for the global cross-tenant monitor pattern
\* succeeds without any prior SetConfig and yields rtk/v1/+/+/+/evt/#, while
\* each of the other five patterns fails when no SetConfig has succeeded.
C22_GlobalPatternNeedsNoConfig ==
    (/\ topic_last.op = "build_subscribe_pattern"
     /\ topic_last.was_configured = 0
     /\ topic_last.pattern \in SubscribePatterns
     /\ topic_last.size > Len(GlobalMonitorText)) =>
       IF topic_last.pattern = "RTK_SUB_GLOBAL_MONITOR"
       THEN topic_last.ret = Len(GlobalMonitorText) /\ topic_last.buffer = GlobalMonitorText
       ELSE topic_last.ret < 0

\* a Build made before any SetConfig had succeeded
NotConfiguredBuild(b) == b.type \in TopicTypes /\ b.size > 0 /\ b.cfg = ZeroTopicConfig
\* a Build of a telemetry or evt topic without a metric/event string, made
\* after a SetConfig had succeeded
MissingMetricBuild(b) ==
    /\ NeedsMetric(b.type) /\ b.metric = NullStr
    /\ b.size > 0 /\ b.cfg # ZeroTopicConfig

\* C23: Build before any successful SetConfig fails with NotConfigured, Build
\* of a telemetry or evt topic with no metric/event string fails with
\* InvalidParam, and the caller can tell the two failures apart from the
\* returned status: a Build of the second kind that follows one of the first
\* kind returns a different failure status.
C23_BuildFailuresDistinguishable ==
    [][(NotConfiguredBuild(built) /\ MissingMetricBuild(built')) =>
          /\ built.ret < 0 /\ built'.ret < 0
          /\ built'.ret # built.ret]_vars

HasWildcardOrSlash(c) == \E i \in 1..Len(c) : c[i] \in {"+", "#", "/"}
\* a configuration with a component that is empty or contains '+', '#' or '/';
\* the optional group_id counts when it is given
BadTopicConfig(c) ==
    \/ \E f \in {"tenant", "site", "device_id"} : c[f] = <<>> \/ HasWildcardOrSlash(c[f])
    \/ HasWildcardOrSlash(c.group_id)

\* C24: SetConfig with any component (tenant, site, device_id, and group_id
\* when given) that is empty or contains '+', '#' or '/' fails and leaves the
\* stored configuration and the configured flag unchanged; hence the stored
\* TopicConfig never contains such a component.
C24_SetConfigRejectsBadComponents ==
    /\ (topic_last.op = "set_config" /\ BadTopicConfig(topic_last.config)) =>
          /\ topic_last.ret < 0
          /\ current_config = topic_last.stored
          /\ topic_is_configured = topic_last.was_configured
    /\ topic_is_configured = 1 => ~BadTopicConfig(current_config)

\* ---- C25 ----
\* Every message written by an encoder that returned a length has a
\* top-level member "schema" that is a string and a top-level member "ts"
\* that is an integer.
EncoderOps == {"state", "event", "command", "response", "lwt", "generic"}
HasMember(members, key, kind) ==
    \E i \in DOMAIN members : members[i].key = key /\ members[i].kind = kind
C25_EveryMessageHasSchemaAndTs ==
    (codec_last.op \in EncoderOps /\ codec_last.ret >= 0)
        => /\ HasMember(codec_last.members, "schema", "string")
           /\ HasMember(codec_last.members, "ts", "integer")

\* ---- C26 ----
\* Any two identifiers returned by rtk_generate_request_id are different
\* strings, and when one call began after the other had returned, its
\* counter part is the larger one.
C26_RequestIdsUnique ==
    \A i, j \in DOMAIN issued :
        i < j => /\ issued[i].id # issued[j].id
                 /\ (issued[j].after >= i => issued[i].counter < issued[j].counter)

\* ---- C27 ----
\* In the object written by rtk_encode_state_message, uptime_s is present
\* exactly when uptime_seconds is positive and reads 120 when it is 120,
\* cpu_usage and memory_usage are present exactly when they are not
\* negative, and temperature_c is present exactly when the temperature is
\* above the float that holds absolute zero.
HasKey(members, key) == \E i \in DOMAIN members : members[i].key = key
StateEncoded == codec_last.op = "state" /\ codec_last.ret >= 0
C27_UnsetNumericsOmitted ==
    StateEncoded =>
        LET m == codec_last.message
            out == codec_last.members
        IN /\ HasKey(out, "uptime_s") <=> m.uptime_seconds > 0
           /\ m.uptime_seconds = 120
                 => \E i \in DOMAIN out : out[i].text = "\"uptime_s\":120"
           /\ HasKey(out, "cpu_usage") <=> m.cpu_usage >= 0
           /\ HasKey(out, "memory_usage") <=> m.memory_usage >= 0
           /\ HasKey(out, "temperature_c")
                 <=> m.temperature > to_float(ABSOLUTE_ZERO_HUNDREDTHS)

\* ---- C28 ----
\* The result structure after rtk_schema_validate_json, called with three
\* non-null arguments on an initialized validator, does not depend on what
\* the structure held before the call: its is_valid, error_message and
\* error_path are those the same call leaves in a zeroed structure.
C28_ResultProducedFresh ==
    ValidateRan =>
        LET fresh == rtk_schema_validate_json(sv_last.json, sv_last.schema_name, "fresh").result
        IN /\ sv_last.result.is_valid = fresh.is_valid
           /\ sv_last.result.error_message = fresh.error_message
           /\ sv_last.result.error_path = fresh.error_path

\* ---- C29 ----
\* Every live instance's plugin_info designates an occupied entry of the
\* plugin table whose name is the plugin_name its CreateInstance was given.
C29_InstanceRefersToItsPlugin ==
    \A i \in LiveSlots :
        /\ plugin_instances[i].plugin_info < plugin_count
        /\ loaded_plugins[plugin_instances[i].plugin_info].name = inst_origin[i]

\* ---- C30 ----
\* A stop or destroy of one instance never calls the plugin's stop while
\* another live instance that refers to the same plugin is flagged running.
StopCalled(l) == \E k \in DOMAIN l.calls : l.calls[k].fn = "stop"
SiblingRunning(slot) ==
    \E j \in LiveSlots \ {slot} :
        /\ plugin_instances[j].plugin_info = plugin_instances[slot].plugin_info
        /\ plugin_instances[j].is_running = 1
C30_StopSparesRunningSiblings ==
    [][\A slot \in 0..(MAX_INSTANCES - 1) :
          (pm_last'.op \in {"stop", "destroy"} /\ pm_last'.a = slot /\ StopCalled(pm_last'))
              => ~SiblingRunning(slot)]_vars

\* ---- C31 ----
\* After a successful Configure on the PubSubClient backend, the
\* configuration the backend holds for its next connect (the adapter's copy
\* and the broker and client id of the wrapper) is the one just accepted.
ConfigureSucceeded ==
    /\ mq_last.op = "configure"
    /\ mq_last.ret = RTK_MQTT_SUCCESS
    /\ mqtt_manager.current_backend = "pubsub"
C31_BackendUsesAcceptedConfig ==
    ConfigureSucceeded =>
        /\ mqtt_manager.current_config = Config(mq_last.arg)
        /\ pubsub_state.config = Config(mq_last.arg)
        /\ g_wrapper.broker_host = Config(mq_last.arg).broker_host
        /\ g_wrapper.broker_port = Config(mq_last.arg).broker_port
        /\ g_wrapper.client_id = Config(mq_last.arg).client_id

\* ---- C32 ----
\* A Configure that fails leaves the manager's stored configuration and
\* its is_configured flag as they were before the call.
C32_FailedConfigureChangesNothing ==
    [][(mq_last'.op = "configure" /\ mq_last'.ret # RTK_MQTT_SUCCESS) =>
          /\ mqtt_manager'.current_config = mqtt_manager.current_config
          /\ mqtt_manager'.is_configured = mqtt_manager.is_configured]_vars

\* ---- C33 ----
\* No call of the manager invokes the active backend's connect or reconnect
\* while is_configured is 0.
ConnectInvoked(l) == \E k \in DOMAIN l.trace : l.trace[k].fn \in {"connect", "reconnect"}
C33_NoConnectWhileUnconfigured ==
    [][ConnectInvoked(mq_last') => mqtt_manager.is_configured = 1]_vars

\* ---- C34 ----
\* A registered message callback survives SetBackend and a later Configure:
\* a Loop that reads an inbound message on a manager connected through the
\* PubSubClient backend invokes the callback the manager holds, whatever
\* backend switches and configurations came after its registration.
InboundDelivered(l) ==
    /\ l.op = "loop"
    /\ l.arg = "inbound"
    /\ l.ret = RTK_MQTT_SUCCESS
C34_CallbackSurvivesBackendSwitch ==
    [][(/\ InboundDelivered(mq_last')
        /\ mqtt_manager.current_backend = "pubsub"
        /\ Connected
        /\ mqtt_manager.global_message_callback # NULL)
       => \E k \in DOMAIN mq_last'.invoked :
             mq_last'.invoked[k] = mqtt_manager.global_message_callback]_vars

\* ---- C35 ----
\* A registered connection callback is invoked by the call that changes the
\* connection state: a Connect or Disconnect that succeeds, or a Loop that
\* finds the connection lost.
ConnectionChanged ==
    /\ mq_last'.op \in {"connect", "disconnect", "loop"}
    /\ Connected # ConnectedNext
C35_ConnectionCallbackInvoked ==
    [][(ConnectionChanged /\ mqtt_manager.global_connection_callback # NULL)
       => \E k \in DOMAIN mq_last'.invoked :
             mq_last'.invoked[k] = mqtt_manager.global_connection_callback]_vars

\* ----------------------------------------------------------------------
\* Publish topic claims
\* ----------------------------------------------------------------------
\* the levels of a topic: the runs between '/' characters, empty ones included
RECURSIVE LevelsFrom(_, _, _)
LevelsFrom(topic, i, current) ==
    IF i > Len(topic) THEN <<current>>
    ELSE IF topic[i] = "/" THEN <<current>> \o LevelsFrom(topic, i + 1, <<>>)
    ELSE LevelsFrom(topic, i + 1, Append(current, topic[i]))
TopicLevels(topic) == LevelsFrom(topic, 1, <<>>)

\* the number of levels of the canonical format, by type
CanonicalLevels(type) ==
    CASE type \in {"RTK_TOPIC_STATE", "RTK_TOPIC_ATTRIBUTE", "RTK_TOPIC_LWT"} -> 6
      [] type \in {"RTK_TOPIC_TELEMETRY", "RTK_TOPIC_EVENT", "RTK_TOPIC_CMD_REQ",
                   "RTK_TOPIC_CMD_ACK", "RTK_TOPIC_CMD_RES"} -> 7
      [] OTHER -> 8

ConcreteTopic(topic, levels) ==
    /\ \A i \in 1..Len(topic) : topic[i] \notin {"+", "#"}
    /\ \A k \in 1..Len(TopicLevels(topic)) : TopicLevels(topic)[k] # <<>>
    /\ Len(TopicLevels(topic)) = levels

\* ---- C37 ----
\* A topic returned by a successful Build, whatever the type and the metric
\* or event name, or by a successful BuildGroupCmd, has no '+' or '#', no
\* empty level, and the number of levels of the canonical format of its type.
C37_BuiltTopicsAreConcrete ==
    /\ built.ret >= 0 => ConcreteTopic(built.buffer, CanonicalLevels(built.type))
    /\ (topic_last.op = "build_group_cmd" /\ topic_last.ret >= 0)
          => ConcreteTopic(topic_last.buffer, CanonicalLevels("RTK_TOPIC_GROUP_CMD"))

\* ----------------------------------------------------------------------
\* Instance table claims
\* ----------------------------------------------------------------------
HighestOccupied ==
    IF LiveSlots = {} THEN -1
    ELSE CHOOSE i \in LiveSlots : \A j \in LiveSlots : j <= i

\* ---- C38 ----
\* instance_count is the index of the highest occupied instance slot plus
\* one (0 when no slot is occupied), it never exceeds MAX_INSTANCES, and every
\* occupied slot lies below instance_count, where the lookup by name finds
\* the name it holds.
C38_InstanceCountTracksHighestSlot ==
    /\ instance_count = HighestOccupied + 1
    /\ instance_count <= MAX_INSTANCES
    /\ \A i \in LiveSlots :
          /\ i < instance_count
          /\ find_instance_by_name(plugin_instances[i].name) >= 0

\* the table was full and the instance in slot 0 was destroyed: the count
\* stays at the capacity above the hole
C38_Witness ==
    /\ pm_last.op = "destroy"
    /\ pm_last.ret = RTK_PLUGIN_SUCCESS
    /\ instance_count = MAX_INSTANCES
    /\ plugin_instances[0].plugin_info = NoSlot
    /\ Cardinality(LiveSlots) = MAX_INSTANCES - 1

\* ----------------------------------------------------------------------
\* Buffer pool claims
\* ----------------------------------------------------------------------
InFree(t) == pool_threads[t].pc \in {"free_lock", "blocked"}

\* ---- C36 ----
\* Every rtk_json_free_buffer called with a buffer that rtk_json_alloc_buffer
\* handed out returns, whichever thread calls it, and when it has returned the
\* buffer is not in use and its mutex is unlocked, so that the next
\* allocation can take it.
C36_FreeReturnsAndBufferReusable ==
    /\ \A t \in Threads : InFree(t) ~> (pool_threads[t].pc = "idle")
    /\ [][pool_last'.op = "free" =>
             /\ buffers'[pool_last'.buffer].in_use = 0
             /\ buffers'[pool_last'.buffer].mutex = Unlocked]_vars

\* ---- C39 ----
\* In every state reached by interleaved rtk_json_alloc_buffer and
\* rtk_json_free_buffer calls, current_usage is the number of buffers in use
\* and at most the pool size, no buffer is held by two callers, and an
\* allocation that returned no buffer found every buffer in use.
C39_PoolBookkeepingConsistent ==
    /\ current_usage = Cardinality({b \in BufferIds : buffers[b].in_use = 1})
    /\ current_usage <= RTK_JSON_POOL_SIZE
    /\ \A b \in BufferIds : Cardinality(held[b]) <= 1
    /\ (pool_last.op = "alloc" /\ pool_last.buffer = NoBuffer) => pool_last.exhausted

====
